---- MODULE Spec2Model ----
(***************************************************************************)
(* A model of the pinpoint game: the level renderer's per-level resource   *)
(* lifecycle (LevelRenderer.loadLevel, src/src/level.ts), the level        *)
(* catalogue (LevelManager) and the game's level transitions and frame     *)
(* loop (src/src/game.ts).                                                 *)
(*                                                                         *)
(* JavaScript runs one task at a time: the code between two awaits is one  *)
(* atomic step.  An async function is a process whose position (pc) is the *)
(* await it is suspended at; an action resumes it with the outcome of the  *)
(* awaited load and runs it up to its next await.                          *)
(***************************************************************************)
EXTENDS Integers, Sequences, FiniteSets, TLC

VARIABLES
  renderer,   \* the LevelRenderer's fields, its container, the ticker, the puzzles
  calls,      \* the invocations of LevelRenderer.loadLevel, by invocation number
  showCurve,  \* the debug option of gameParamsDebug.ts
  mgr,        \* the LevelManager under test: levels, currentLevelIndex, last call
  game,       \* the game module's state (game.ts)
  geom,       \* the arguments of the pure function under test and its answer
  puzzle,     \* a ScatterPuzzle with its tiles' numbers (scatterPuzzle.ts)
  scene       \* what drawLevel reads and writes: the level, the resources held,
              \* the filters' parameters, alphas, background colour, positions

vars == <<renderer, calls, showCurve, mgr, game, geom, puzzle, scene>>

(***************************************************************************)
(* Bounds of the model.                                                    *)
(***************************************************************************)
\* invocations of LevelRenderer.loadLevel in one behaviour
MaxCalls == 2
\* elements of a level's multiImage list
MaxMulti == 2
\* resource kinds one level configuration may set together
MaxKinds == 2

\* levels in a LevelManager's catalogue, and the ids they are drawn from
MaxLevels == 3
MaxId == 4

\* levels in the catalogue the game fetches
MaxCatalog == 3
\* invocations of the game's loadLevel that have not resolved
MaxInFlight == 2

\* pixel coordinates and radii tried for LevelManager.isGuessSuccessful
MaxCoord == 4
MaxRadius == 6

\* gameParams: the tablet canvas and the art viewport
TABLET_WIDTH == 1296
TABLET_HEIGHT == 729
ART_WIDTH == 1152
ART_HEIGHT == 648

\* frames drawn in one behaviour
MaxFrames == 2
\* the largest whole distance between a guess and a target
MaxDistance == 200
\* updateMultiImageAlpha: focus = max(0, 1 - d / 30)
MultiImageFalloff == 30
\* updateBackgroundColor: maxDist squared, 100 ** 2 + 100 ** 2
MaxDistSquared == 20000
\* the warp's maximal displacement in pixels
WarpGain == 600
\* (spiralConfig.strength ?? 0.1) * 10 without a configured strength
DefaultBlurGain == 1

\* width and height in pixels of the curve images tried
MaxImageSize == 3

\* the denominator of the fractional coordinates and dimensions tried
MaxDenominator == 2

\* draws of the tiles' random scatter vectors tried
MaxDraws == 2
\* calls of destroy on one puzzle
MaxDestroys == 2

\* update: scatterFactor = dist / ScatterDivisor
ScatterDivisor == 400

\* jigsawGridSize: a puzzle has jigsawGridSize * jigsawGridSize pieces
jigsawGridSize == 10

CallIds == 1..MaxCalls

(***************************************************************************)
(* Level configurations (class Level): the optional fields loadLevel       *)
(* looks at.  multiImage is the length of the list, 0 when the field is    *)
(* absent.                                                                 *)
(***************************************************************************)
AllLevels ==
  [image: BOOLEAN, spiralEffect: BOOLEAN, multiImage: 0..MaxMulti,
   fixedImage: BOOLEAN, jigsawImage: BOOLEAN, curveImage: BOOLEAN,
   curveCursor: BOOLEAN]

B2N(b) == IF b THEN 1 ELSE 0

KindCount(l) ==
  B2N(l.image) + B2N(l.multiImage > 0) + B2N(l.fixedImage) + B2N(l.jigsawImage)
    + B2N(l.curveImage) + B2N(l.curveCursor)

\* spiralEffect only selects the filter of the single image
Levels == {l \in AllLevels : KindCount(l) <= MaxKinds /\ (l.spiralEffect => l.image)}

NoLevel ==
  [image |-> FALSE, spiralEffect |-> FALSE, multiImage |-> 0, fixedImage |-> FALSE,
   jigsawImage |-> FALSE, curveImage |-> FALSE, curveCursor |-> FALSE]

(***************************************************************************)
(* Objects.  An object created by invocation c of loadLevel is             *)
(* <<kind, c, i>>; null is Null.                                           *)
(***************************************************************************)
Null == <<"null", 0, 0>>
Obj(kind, c, i) == <<kind, c, i>>
Owner(o) == o[2]

SeqRange(s) == {s[k] : k \in 1..Len(s)}

NoPuzzle == [pieces |-> 0, targetPiece |-> "null", built |-> FALSE]

\* LevelRenderer's fields as declared, before any loadLevel
NewRenderer(filters) ==
  [backgroundSprite |-> Null,
   fixedImageSprite |-> Null,
   backgroundSprites |-> <<>>,
   displacementFilter |-> Null,
   displacementSprite |-> Null,
   spiralFilter |-> Null,
   scatterPuzzle |-> Null,
   curveImage |-> Null,
   curveDisplaySprite |-> Null,
   curveCursorSprite |-> Null,
   children |-> {},             \* backgroundContainer.children
   containerFilters |-> filters, \* backgroundContainer.filters
   backgroundSpriteFilters |-> Null, \* this.backgroundSprite.filters[0]
   ticker |-> {},               \* puzzles whose update is registered on app.ticker
   puzzles |-> [c \in CallIds |-> NoPuzzle]]

(***************************************************************************)
(* ScatterPuzzle: construction and destroy.                                *)
(***************************************************************************)
\* new ScatterPuzzle(...): container added to the parent, pieces created,
\* update registered on the ticker
ScatterPuzzle_new(h, c) ==
  [h EXCEPT !.children = @ \cup {Obj("puzzle", c, 0)},
            !.puzzles[c] = [pieces |-> jigsawGridSize * jigsawGridSize,
                            targetPiece |-> "piece", built |-> TRUE],
            !.ticker = @ \cup {c}]

\* destroy that forgets app.ticker.remove(this.update)
ScatterPuzzle_destroy_keepsTicker(h, c) ==
  [h EXCEPT !.children = @ \ {Obj("puzzle", c, 0)},
            !.puzzles[c].pieces = 0,
            !.puzzles[c].targetPiece = "null"]

ScatterPuzzle_destroy(h, c) ==
  [h EXCEPT !.ticker = @ \ {c},
            !.children = @ \ {Obj("puzzle", c, 0)},
            !.puzzles[c].pieces = 0,
            !.puzzles[c].targetPiece = "null"]

(***************************************************************************)
(* LevelRenderer.loadLevel: the teardown block.                            *)
(***************************************************************************)
Teardown(h) ==
  LET h1 == [h EXCEPT !.children = @ \ {h.backgroundSprite},
                      !.backgroundSprite = Null,
                      !.backgroundSpriteFilters = Null]
      h2 == [h1 EXCEPT !.children = @ \ {h1.fixedImageSprite},
                       !.fixedImageSprite = Null]
      h3 == [h2 EXCEPT !.children = @ \ SeqRange(h2.backgroundSprites),
                       !.backgroundSprites = <<>>]
      h4 == IF h3.scatterPuzzle # Null
              THEN [ScatterPuzzle_destroy(h3, Owner(h3.scatterPuzzle))
                      EXCEPT !.scatterPuzzle = Null]
              ELSE h3
      h5 == [h4 EXCEPT !.curveImage = Null]
      h6 == [h5 EXCEPT !.children = @ \ {h5.curveDisplaySprite},
                       !.curveDisplaySprite = Null]
      h7 == [h6 EXCEPT !.children = @ \ {h6.curveCursorSprite},
                       !.curveCursorSprite = Null]
  IN  [h7 EXCEPT !.containerFilters = "undefined", !.spiralFilter = Null]

(***************************************************************************)
(* LevelRenderer.loadLevel: the acquisition blocks.  Each operator takes   *)
(* the renderer h, the invocation c and its level l and returns the        *)
(* renderer, the await the invocation is suspended at next (pc) and the    *)
(* multi-image loop index (i).                                             *)
(***************************************************************************)
At(h, pc, i) == [h |-> h, pc |-> pc, i |-> i]

\* lines 798-803: the late cleanup, then the promise resolves
Finish(h, c, l) ==
  At(IF ~l.image
       THEN [h EXCEPT !.displacementFilter = Null, !.displacementSprite = Null]
       ELSE h,
     "done", 0)

FromCurveCursor(h, c, l) ==
  IF l.curveCursor THEN At(h, "curveCursor", 0) ELSE Finish(h, c, l)

FromCurveImage(h, c, l) ==
  IF l.curveImage THEN At(h, "curveImage", 0) ELSE FromCurveCursor(h, c, l)

\* a jigsaw block guarded by level.jigsawImage alone
FromJigsaw_anyLevel(h, c, l) ==
  IF l.jigsawImage THEN At(h, "jigsawImage", 0) ELSE FromCurveImage(h, c, l)

FromJigsaw(h, c, l) ==
  IF l.jigsawImage /\ ~l.image /\ ~(l.multiImage > 0)
    THEN At(h, "jigsawImage", 0)
    ELSE FromCurveImage(h, c, l)

FromFixedImage(h, c, l) ==
  IF l.fixedImage THEN At(h, "fixedImage", 0) ELSE FromJigsaw(h, c, l)

FromMultiImage(h, c, l) ==
  IF l.multiImage > 0 THEN At(h, "multiImage", 1) ELSE FromFixedImage(h, c, l)

FromImage(h, c, l) ==
  IF l.image THEN At(h, "image", 0) ELSE FromMultiImage(h, c, l)

\* catch of the single-image block
ImageFailed(h, c, l) ==
  FromMultiImage([h EXCEPT !.backgroundSprite = Null,
                           !.backgroundSpriteFilters = Null], c, l)

\* the first Assets.load of the single image resolved
ImageLoaded(h, c, l) ==
  At([h EXCEPT !.backgroundSprite = Obj("sprite", c, 0),
               !.backgroundSpriteFilters = Null],
     "displacement", 0)

\* the second Assets.load (displacement texture) resolved.  The code goes on
\* with this.backgroundSprite, whatever it refers to by now: on null the
\* assignment of its filters throws and the catch runs.
DisplacementLoaded(h, c, l) ==
  LET h1 == [h EXCEPT !.displacementSprite = Obj("displacementSprite", c, 0),
                      !.displacementFilter = Obj("displacementFilter", c, 0),
                      !.spiralFilter = Obj("blurFilter", c, 0)]
      f  == IF l.spiralEffect THEN h1.spiralFilter ELSE h1.displacementFilter
  IN  IF h1.backgroundSprite = Null
        THEN ImageFailed(h1, c, l)
        ELSE FromMultiImage(
               [h1 EXCEPT !.backgroundSpriteFilters = f,
                          !.children = @ \cup {h1.backgroundSprite}],
               c, l)

\* catch of the multi-image block: the loop is abandoned
MultiImageFailed(h, c, l, i) == FromFixedImage(h, c, l)

\* Assets.load of element i of multiImage resolved
MultiImageLoaded(h, c, l, i) ==
  LET s  == Obj("multiSprite", c, i)
      h1 == [h EXCEPT !.backgroundSprites = Append(@, s),
                      !.children = @ \cup {s}]
  IN  IF i < l.multiImage THEN At(h1, "multiImage", i + 1)
                          ELSE FromFixedImage(h1, c, l)

\* the fixed-image block without its try/catch: the rejection escapes loadLevel
FixedImageFailed_uncaught(h, c, l) == At(h, "rejected", 0)

FixedImageFailed(h, c, l) ==
  FromJigsaw([h EXCEPT !.fixedImageSprite = Null], c, l)

FixedImageLoaded(h, c, l) ==
  LET s == Obj("fixedSprite", c, 0)
  IN  FromJigsaw([h EXCEPT !.fixedImageSprite = s, !.children = @ \cup {s}], c, l)

JigsawFailed(h, c, l) ==
  FromCurveImage([h EXCEPT !.scatterPuzzle = Null], c, l)

JigsawLoaded(h, c, l) ==
  FromCurveImage([ScatterPuzzle_new(h, c) EXCEPT !.scatterPuzzle = Obj("puzzle", c, 0)],
                 c, l)

\* catch of the curve block (either of its two awaits)
CurveImageFailed(h, c, l) ==
  FromCurveCursor([h EXCEPT !.curveImage = Null, !.curveDisplaySprite = Null], c, l)

CurveImageLoaded(h, c, l, show) ==
  LET h1 == [h EXCEPT !.curveImage = Obj("image", c, 0)]
  IN  IF show THEN At(h1, "curveDisplay", 0) ELSE FromCurveCursor(h1, c, l)

CurveDisplayLoaded(h, c, l) ==
  LET s == Obj("curveDisplaySprite", c, 0)
  IN  FromCurveCursor([h EXCEPT !.curveDisplaySprite = s, !.children = @ \cup {s}],
                      c, l)

CurveCursorFailed(h, c, l) ==
  Finish([h EXCEPT !.curveCursorSprite = Null], c, l)

CurveCursorLoaded(h, c, l) ==
  LET s == Obj("curveCursorSprite", c, 0)
  IN  Finish([h EXCEPT !.curveCursorSprite = s, !.children = @ \cup {s}], c, l)

\* the continuation of invocation c, suspended at pc, when the awaited load
\* resolves (ok) or rejects (~ok)
Continue(h, c, l, pc, i, ok, show) ==
  CASE pc = "image"        -> IF ok THEN ImageLoaded(h, c, l) ELSE ImageFailed(h, c, l)
    [] pc = "displacement" -> IF ok THEN DisplacementLoaded(h, c, l)
                                    ELSE ImageFailed(h, c, l)
    [] pc = "multiImage"   -> IF ok THEN MultiImageLoaded(h, c, l, i)
                                    ELSE MultiImageFailed(h, c, l, i)
    [] pc = "fixedImage"   -> IF ok THEN FixedImageLoaded(h, c, l)
                                    ELSE FixedImageFailed(h, c, l)
    [] pc = "jigsawImage"  -> IF ok THEN JigsawLoaded(h, c, l) ELSE JigsawFailed(h, c, l)
    [] pc = "curveImage"   -> IF ok THEN CurveImageLoaded(h, c, l, show)
                                    ELSE CurveImageFailed(h, c, l)
    [] pc = "curveDisplay" -> IF ok THEN CurveDisplayLoaded(h, c, l)
                                    ELSE CurveImageFailed(h, c, l)
    [] pc = "curveCursor"  -> IF ok THEN CurveCursorLoaded(h, c, l)
                                    ELSE CurveCursorFailed(h, c, l)

Awaits ==
  {"image", "displacement", "multiImage", "fixedImage", "jigsawImage", "curveImage",
   "curveDisplay", "curveCursor"}

\* the name of the load awaited at pc, i
LoadName(pc, i) == <<pc, i>>

(***************************************************************************)
(* The invocations of LevelRenderer.loadLevel.                             *)
(***************************************************************************)
IdleCall == [level |-> NoLevel, pc |-> "idle", i |-> 0, failed |-> {}, during |-> {}]
\* a resolved invocation holds no state: its record (pc = "done") is kept until
\* the next call of loadLevel, so that its outcome can be read off, and is then
\* replaced by this one
Resolved == [level |-> NoLevel, pc |-> "past", i |-> 0, failed |-> {}, during |-> {}]

InFlight == {c \in CallIds : calls[c].pc \in Awaits}

\* loadLevel(l) is called: teardown, then on to the first await (or to the end)
LevelRenderer_loadLevel(c, l) ==
  /\ calls[c].pc = "idle"
  /\ \A d \in CallIds : d < c => calls[d].pc # "idle"
  /\ LET r == FromImage(Teardown(renderer), c, l)
     IN  /\ renderer' = r.h
         /\ calls' = [d \in CallIds |->
                       IF d = c THEN [level |-> l, pc |-> r.pc, i |-> r.i,
                                      failed |-> {}, during |-> InFlight]
                       ELSE IF calls[d].pc = "done" THEN Resolved
                       ELSE calls[d]]
  /\ UNCHANGED <<showCurve, mgr, game, geom, puzzle, scene>>

\* the load invocation c awaits resolves or rejects
Resume(c, ok) ==
  /\ calls[c].pc \in Awaits
  /\ LET k == calls[c]
         r == Continue(renderer, c, k.level, k.pc, k.i, ok, showCurve)
     IN  /\ renderer' = r.h
         /\ calls' = [calls EXCEPT ![c].pc = r.pc, ![c].i = r.i,
                                   ![c].failed = IF ok THEN @
                                                 ELSE @ \cup {LoadName(k.pc, k.i)}]
  /\ UNCHANGED <<showCurve, mgr, game, geom, puzzle, scene>>

(***************************************************************************)
(* LevelManager (src/src/level.ts 306-335).  A level is a record with an   *)
(* id; array indices are 0-based as in the source; reading an array past   *)
(* its end gives undefined.                                                *)
(***************************************************************************)
Undefined == [undefined |-> TRUE]

\* levels[i] of a JavaScript array
ArrayAt(a, i) == IF i >= 0 /\ i < Len(a) THEN a[i + 1] ELSE Undefined

\* the comparator b.id - a.id: x goes behind every element whose id is not smaller
InsertById_descending(t, x) ==
  LET k == Cardinality({j \in 1..Len(t) : t[j].id >= x.id})
  IN  SubSeq(t, 1, k) \o <<x>> \o SubSeq(t, k + 1, Len(t))

\* x put into the id-sorted array t behind every element whose id is not larger
InsertById(t, x) ==
  LET k == Cardinality({j \in 1..Len(t) : t[j].id <= x.id})
  IN  SubSeq(t, 1, k) \o <<x>> \o SubSeq(t, k + 1, Len(t))

\* levels.sort((a, b) => a.id - b.id): a stable sort, ascending by id
RECURSIVE SortById(_)
SortById(a) ==
  IF Len(a) = 0 THEN <<>>
  ELSE InsertById(SortById(SubSeq(a, 1, Len(a) - 1)), a[Len(a)])

LevelManager_new(levels) == [levels |-> SortById(levels), currentLevelIndex |-> 0]

LevelManager_getCurrentLevel(m) == ArrayAt(m.levels, m.currentLevelIndex)

LevelManager_getLevelCount(m) == Len(m.levels)

\* loadLevel that clamps the index into the valid range instead of ignoring it
LevelManager_setIndex_clamped(m, levelIndex) ==
  [m EXCEPT !.currentLevelIndex =
     IF Len(m.levels) = 0 THEN @
     ELSE IF levelIndex < 0 THEN 0
     ELSE IF levelIndex >= Len(m.levels) THEN Len(m.levels) - 1
     ELSE levelIndex]

\* loadLevel whose range test admits levelIndex = levels.length
LevelManager_setIndex_inclusive(m, levelIndex) ==
  [m EXCEPT !.currentLevelIndex =
     IF levelIndex >= 0 /\ levelIndex <= Len(m.levels) THEN levelIndex ELSE @]

\* the assignment of loadLevel(levelIndex): the manager after the call
LevelManager_setIndex(m, levelIndex) ==
  [m EXCEPT !.currentLevelIndex =
     IF levelIndex >= 0 /\ levelIndex < Len(m.levels) THEN levelIndex ELSE @]

\* loadLevel(levelIndex): the manager after the call and the level returned
LevelManager_loadLevel(m, levelIndex) ==
  LET m1 == LevelManager_setIndex(m, levelIndex)
  IN  [m |-> m1, ret |-> LevelManager_getCurrentLevel(m1)]

\* arguments tried for loadLevel: in range, below and beyond
IndexArgs == (0 - 1)..(MaxLevels + 1)

\* the arrays a LevelManager is constructed from: levels with distinct ids, in
\* any order
LevelInputs ==
  {a \in UNION {[1..n -> {[id |-> k] : k \in 1..MaxId}] : n \in 0..MaxLevels} :
     \A i \in 1..Len(a), j \in 1..Len(a) : i # j => a[i].id # a[j].id}

\* what a call returned: a level (or undefined), a number, or an array of levels
RetLevel(x) == [level |-> x, n |-> 0, levels |-> <<>>]
RetNumber(n) == [level |-> Undefined, n |-> n, levels |-> <<>>]
RetLevels(a) == [level |-> Undefined, n |-> 0, levels |-> a]

\* mgr.lm is the manager, mgr.given the array it was constructed from,
\* mgr.last the last call made on it and what it returned
Called(m, op, arg, ret) ==
  [lm |-> m, given |-> mgr.given, last |-> [op |-> op, arg |-> arg, ret |-> ret]]

\* the manager constructed from the array a; given keeps the array as passed
Constructed(a) ==
  [lm |-> LevelManager_new(a), given |-> a,
   last |-> [op |-> "new", arg |-> 0, ret |-> RetLevel(Undefined)]]

Mgr_loadLevel(i) ==
  /\ LET r == LevelManager_loadLevel(mgr.lm, i)
     IN  mgr' = Called(r.m, "loadLevel", i, RetLevel(r.ret))
  /\ UNCHANGED <<renderer, calls, showCurve, game, geom, puzzle, scene>>

Mgr_getCurrentLevel ==
  /\ mgr' = Called(mgr.lm, "getCurrentLevel", 0, RetLevel(LevelManager_getCurrentLevel(mgr.lm)))
  /\ UNCHANGED <<renderer, calls, showCurve, game, geom, puzzle, scene>>

\* getAllLevels returns a copy of the array
Mgr_getAllLevels ==
  /\ mgr' = Called(mgr.lm, "getAllLevels", 0, RetLevels(mgr.lm.levels))
  /\ UNCHANGED <<renderer, calls, showCurve, game, geom, puzzle, scene>>

Mgr_getLevelCount ==
  /\ mgr' = Called(mgr.lm, "getLevelCount", 0, RetNumber(LevelManager_getLevelCount(mgr.lm)))
  /\ UNCHANGED <<renderer, calls, showCurve, game, geom, puzzle, scene>>

Mgr_getCurrentLevelIndex ==
  /\ mgr' = Called(mgr.lm, "getCurrentLevelIndex", 0, RetNumber(mgr.lm.currentLevelIndex))
  /\ UNCHANGED <<renderer, calls, showCurve, game, geom, puzzle, scene>>

NoMgr == Constructed(<<>>)

(***************************************************************************)
(* ScatterPuzzle with its numbers (src/src/scatterPuzzle.ts).  Numbers are *)
(* exact.  The inputs are chosen so that canvas, image, tile and target    *)
(* measures are whole pixels; sprite positions, which a scatter moves by   *)
(* fractions of a pixel, are kept in 1/Unit pixel.  A slope is a fraction  *)
(* a/b with sqrt(slope^2 + 1) = c/b.  Math.sqrt of a number that is not a  *)
(* square is rounded down to a whole pixel.                                *)
(***************************************************************************)
Unit == 5 * ScatterDivisor

Point(x, y) == [x |-> x, y |-> y]

Tiles == 0..(jigsawGridSize * jigsawGridSize - 1)
Col(k) == k % jigsawGridSize
Row(k) == k \div jigsawGridSize

\* n % m of JavaScript, m > 0: the remainder has the sign of n
JsRemainder(n, m) == IF n >= 0 THEN n % m ELSE 0 - ((0 - n) % m)

\* trueModulo without its correction for negative numbers
trueModulo_remainder(n, m) == JsRemainder(n, m)

\* helpers.ts: ((n % m) + m) % m
trueModulo(n, m) == JsRemainder(JsRemainder(n, m) + m, m)

\* Math.sqrt(n), rounded down
Sqrt(n) == CHOOSE r \in 0..n : r * r <= n /\ (r + 1) * (r + 1) > n

\* createPieces 43-59: the image scaled by min(scaleX, scaleY) to fit the canvas
ScaledImage(canvas, image) ==
  IF canvas[1] * image[2] <= canvas[2] * image[1]
  THEN <<canvas[1], (canvas[1] * image[2]) \div image[1]>>
  ELSE <<(canvas[2] * image[1]) \div image[2], canvas[2]>>

\* level.ts 736-739: the target in the renderer's pixels
TargetPixels(percent, art) == Point((percent.x * art[1]) \div 100, (percent.y * art[2]) \div 100)

\* the scatter vectors a draw gives the tiles: unit vector times a magnitude
\* in [200, 800)
Vectors == << <<240, 320>>, <<0 - 300, 400>>, <<0, 0 - 600>>, <<480, 0>>, <<0 - 480, 0 - 360>> >>
Draw(d, k) == Vectors[((k + d) % Len(Vectors)) + 1]

\* createPieces 96-103: the tile at (left, top) contains the target
ContainsTarget(target, left, top, pieceW, pieceH) ==
  /\ target.x >= left /\ target.x < left + pieceW
  /\ target.y >= top /\ target.y < top + pieceH

\* constructor and createPieces.  canvas is app.renderer's size, d the draw
\* of Math.random.  targetPiece is the last tile of the loop that contains
\* the target, 0 - 1 for null.
ScatterPuzzle_create(canvas, image, target, slope, movement, d) ==
  LET scaled == ScaledImage(canvas, image)
      pieceW == scaled[1] \div jigsawGridSize
      pieceH == scaled[2] \div jigsawGridSize
      hit(k) == ContainsTarget(target, Col(k) * pieceW, Row(k) * pieceH, pieceW, pieceH)
      hits == {k \in Tiles : hit(k)}
      tp == IF hits = {} THEN 0 - 1 ELSE CHOOSE k \in hits : \A j \in hits : j <= k
  IN  [ canvas |-> canvas,
        target |-> target,
        jigsawSlope |-> slope,
        jigsawMovement |-> movement,
        currentGuess |-> Point(0, 0),
        targetPiece |-> tp,
        targetPieceOffset |-> IF tp < 0 THEN Point(0, 0)
                              ELSE Point(target.x - Col(tp) * pieceW, target.y - Row(tp) * pieceH),
        pieces |-> [k \in Tiles |->
                     [ trueX |-> Col(k) * pieceW, trueY |-> Row(k) * pieceH,
                       offsetX |-> Draw(d, k)[1], offsetY |-> Draw(d, k)[2],
                       x |-> Col(k) * pieceW * Unit, y |-> Row(k) * pieceH * Unit,
                       border |-> hit(k),
                       borderX |-> IF hit(k) THEN Col(k) * pieceW * Unit ELSE 0,
                       borderY |-> IF hit(k) THEN Row(k) * pieceH * Unit ELSE 0 ]],
        dist |-> [num |-> 0, den |-> 1],   \* dist of the last update, a fraction
        ticker |-> TRUE,                   \* update is registered on app.ticker
        container |-> "live",              \* the container holding the sprites
        destroyCalls |-> 0,                \* calls of destroy made so far
        last |-> "new" ]

(***************************************************************************)
(* Distance tests (src/src/level.ts 337-348, src/src/game.ts 951-961,      *)
(* src/unnamed/part_004 521-531).  Numbers are exact.  Math.sqrt(n) is     *)
(* never computed: it is compared through its square.  The game loop's     *)
(* pixel values are kept in hundredths of a pixel, so that                 *)
(* (percent / 100) * ART_WIDTH is the integer percent * ART_WIDTH.         *)
(***************************************************************************)
\* dx * dx + dy * dy of LevelManager.distance
DistanceSquared(a, b) ==
  LET dx == a.x - b.x
      dy == a.y - b.y
  IN  dx * dx + dy * dy

\* Math.sqrt(n) <= r, for n >= 0
SqrtAtMost(n, r) == r >= 0 /\ n <= r * r

\* Math.sqrt(n) < r, for n >= 0
SqrtLess(n, r) == r > 0 /\ n < r * r

\* isGuessSuccessful that accepts a guess at distance radius
LevelManager_isGuessSuccessful_inclusive(guess, target, radius) ==
  SqrtAtMost(DistanceSquared(guess, target), radius)

\* dist = LevelManager.distance(guess, target); return dist < radius
LevelManager_isGuessSuccessful(guess, target, radius) ==
  SqrtLess(DistanceSquared(guess, target), radius)

\* (percentage.x / 100) * ART_WIDTH, (percentage.y / 100) * ART_HEIGHT, in
\* hundredths of a pixel
ToArtPixels(percentage) == Point(percentage.x * ART_WIDTH, percentage.y * ART_HEIGHT)

\* the success test of gameLoop in game.ts: the guess and the target in art
\* pixels, the radius as the level gives it
GameLoop_wasFound(guess, level) ==
  LevelManager_isGuessSuccessful(guess, ToArtPixels(level.target), level.targetRadius * 100)

\* the success test of gameLoop in part_004: the radius is
\* (targetRadius / 100) * ART_HEIGHT
GameLoop_wasFound_scaledRadius(guess, level) ==
  LevelManager_isGuessSuccessful(guess, ToArtPixels(level.target), level.targetRadius * ART_HEIGHT)

Tested(op, guess, target, radius, ret) ==
  [op |-> op, guess |-> guess, target |-> target, radius |-> radius, ret |-> ret]

NoTest == Tested("none", Point(0, 0), Point(0, 0), 0, FALSE)

\* points and radii tried for isGuessSuccessful
PixelPoints == {Point(x, y) : x \in 0..MaxCoord, y \in 0..MaxCoord}

\* points in percentage space tried for the game loop: around the centre
PercentPoints == {Point(x, y) : x \in {46, 50, 51, 54}, y \in {46, 50, 51, 54}}

\* geom holds the arguments of a test; the test fills in its answer
IsGuessSuccessful ==
  /\ geom.op = "none"
  /\ geom.guess \in PixelPoints
  /\ geom' = [geom EXCEPT !.op = "isGuessSuccessful",
                          !.ret = LevelManager_isGuessSuccessful(geom.guess, geom.target, geom.radius)]
  /\ UNCHANGED <<renderer, calls, showCurve, mgr, game, puzzle, scene>>

\* a frame's success test for a guess at the art pixels of the percentage
\* point geom.guess and a level with the target geom.target
SuccessCheck ==
  /\ geom.op = "none"
  /\ geom.guess \in PercentPoints
  /\ geom' = [geom EXCEPT !.op = "gameLoop",
                          !.ret = GameLoop_wasFound(ToArtPixels(geom.guess),
                                    [target |-> geom.target, targetRadius |-> geom.radius])]
  /\ UNCHANGED <<renderer, calls, showCurve, mgr, game, puzzle, scene>>

SuccessCheck_scaledRadius ==
  /\ geom.op = "none"
  /\ geom.guess \in PercentPoints
  /\ geom' = [geom EXCEPT !.op = "gameLoop (part_004)",
                          !.ret = GameLoop_wasFound_scaledRadius(ToArtPixels(geom.guess),
                                    [target |-> geom.target, targetRadius |-> geom.radius])]
  /\ UNCHANGED <<renderer, calls, showCurve, mgr, game, puzzle, scene>>

\* update 129-143: dist as the fraction num/den.  With a slope a/b the
\* code's m is -a/b; numerator and denominator are both multiplied by b.
ScatterDistance(p) ==
  IF p.jigsawSlope.defined
  THEN LET a == p.jigsawSlope.a
           b == p.jigsawSlope.b
       IN  [num |-> (0 - a) * p.currentGuess.x - b * p.currentGuess.y
                    + (b * p.target.y + a * p.target.x),
            den |-> p.jigsawSlope.c]
  ELSE [num |-> Sqrt(DistanceSquared(p.currentGuess, p.target)), den |-> 1]

MovementFactor(p) == IF p.jigsawMovement.defined THEN p.jigsawMovement.v ELSE 1

\* update 176-177: true + scatterFactor * offset * movementFactor, in 1/Unit
Scattered(p, true, offset) ==
  LET dist == ScatterDistance(p)
  IN  true * Unit
      + (dist.num * offset * MovementFactor(p) * (Unit \div ScatterDivisor)) \div dist.den

PieceWidth(p) == p.canvas[1] \div jigsawGridSize
PieceHeight(p) == p.canvas[2] \div jigsawGridSize
ExtendedWidth(p) == p.canvas[1] + 2 * PieceWidth(p)
ExtendedHeight(p) == p.canvas[2] + 2 * PieceHeight(p)

\* the wrap without the shift by one tile
WrapX_unshifted(p, newX) == trueModulo(newX, ExtendedWidth(p) * Unit) - PieceWidth(p) * Unit

\* update 189-190
WrapX(p, newX) ==
  trueModulo(newX + PieceWidth(p) * Unit, ExtendedWidth(p) * Unit) - PieceWidth(p) * Unit

\* the Y wrap taken with the % operator in place of trueModulo
WrapY_remainder(p, newY) ==
  JsRemainder(newY + PieceHeight(p) * Unit, ExtendedHeight(p) * Unit) - PieceHeight(p) * Unit

WrapY(p, newY) ==
  trueModulo(newY + PieceHeight(p) * Unit, ExtendedHeight(p) * Unit) - PieceHeight(p) * Unit

\* the scatter branch of the loop body
ScatteredPiece(p, k) ==
  [p.pieces[k] EXCEPT !.x = WrapX(p, Scattered(p, p.pieces[k].trueX, p.pieces[k].offsetX)),
                      !.y = WrapY(p, Scattered(p, p.pieces[k].trueY, p.pieces[k].offsetY))]

\* the target branch of the loop body: the tile and its border under the guess
FollowingPiece(p, k) ==
  LET x == (p.currentGuess.x - p.targetPieceOffset.x) * Unit
      y == (p.currentGuess.y - p.targetPieceOffset.y) * Unit
  IN  [p.pieces[k] EXCEPT !.x = x, !.y = y,
                          !.borderX = IF p.pieces[k].border THEN x ELSE @,
                          !.borderY = IF p.pieces[k].border THEN y ELSE @]

\* a loop body without the target branch
UpdatedPiece_scatterAll(p, k) == ScatteredPiece(p, k)

\* a loop body that writes the scattered position back as the home position
UpdatedPiece_movesHome(p, k) ==
  IF k = p.targetPiece THEN FollowingPiece(p, k)
  ELSE [ScatteredPiece(p, k) EXCEPT !.trueX = Scattered(p, p.pieces[k].trueX, p.pieces[k].offsetX) \div Unit]

\* update 151-194: the loop body for tile k
UpdatedPiece(p, k) ==
  IF k = p.targetPiece THEN FollowingPiece(p, k) ELSE ScatteredPiece(p, k)

ScatterPuzzle_update(p) ==
  [p EXCEPT !.pieces = [k \in DOMAIN p.pieces |-> UpdatedPiece(p, k)],
            !.dist = ScatterDistance(p),
            !.last = "update"]

ScatterPuzzle_updateGuess(p, guess) ==
  [p EXCEPT !.currentGuess = guess, !.last = "updateGuess"]

\* Container.destroy({ children: true }) of pixi.js: a destroyed container
\* returns at once, a live one destroys its children and leaves its parent
Container_destroy(c) == IF c = "destroyed" THEN c ELSE "destroyed"

\* destroy 203-208 without app.ticker.remove(this.update)
ScatterPuzzle_teardown_keepsTicker(p) ==
  [p EXCEPT !.container = Container_destroy(@),
            !.pieces = <<>>,
            !.targetPiece = 0 - 1,
            !.destroyCalls = @ + 1,
            !.last = "destroy"]

\* destroy 203-208, on the puzzle's own fields
ScatterPuzzle_teardown(p) ==
  [p EXCEPT !.ticker = FALSE,
            !.container = Container_destroy(@),
            !.pieces = <<>>,
            !.targetPiece = 0 - 1,
            !.destroyCalls = @ + 1,
            !.last = "destroy"]

\* the inputs tried
RendererSizes == {<<40, 20>>}
ArtSizes == {<<32, 16>>}
ImageSizes == {<<40, 20>>, <<20, 20>>, <<10, 20>>}
TargetPercents == {Point(x, y) : x \in {0, 50, 100}, y \in {0, 50, 100}}
NoSlope == [defined |-> FALSE, a |-> 0, b |-> 1, c |-> 1]
Slopes == {NoSlope, [defined |-> TRUE, a |-> 0, b |-> 1, c |-> 1],
           [defined |-> TRUE, a |-> 3, b |-> 4, c |-> 5]}
Movements == {[defined |-> FALSE, v |-> 0], [defined |-> TRUE, v |-> 2]}
\* guesses, as displacements from the target at a whole distance
Displacements == {<<0, 0>>, <<5, 0>>, <<4, 3>>, <<4, 0 - 3>>, <<0 - 60, 80>>}

\* the ticker calls update while it is registered
Puzzle_update ==
  /\ puzzle.ticker
  /\ puzzle' = ScatterPuzzle_update(puzzle)
  /\ UNCHANGED <<renderer, calls, showCurve, mgr, game, geom, scene>>

Puzzle_updateGuess(guess) ==
  /\ puzzle' = ScatterPuzzle_updateGuess(puzzle, guess)
  /\ UNCHANGED <<renderer, calls, showCurve, mgr, game, geom, scene>>

\* whoever holds the puzzle calls destroy
Puzzle_destroy ==
  /\ puzzle.destroyCalls < MaxDestroys
  /\ puzzle' = ScatterPuzzle_teardown(puzzle)
  /\ UNCHANGED <<renderer, calls, showCurve, mgr, game, geom, scene>>

(***************************************************************************)
(* Coordinate conversions (src/src/level.ts 350-364).  Numbers are exact   *)
(* rationals n/d in lowest terms with d > 0, so that a product followed by *)
(* a quotient is computed, not cancelled by notation.                      *)
(***************************************************************************)
Abs(n) == IF n < 0 THEN 0 - n ELSE n

RECURSIVE GCD(_, _)
GCD(a, b) == IF b = 0 THEN a ELSE GCD(b, a % b)

\* the rational n/d, d # 0, in lowest terms
Rat(n, d) ==
  LET g == GCD(Abs(n), Abs(d))
  IN  IF d > 0 THEN [n |-> n \div g, d |-> d \div g]
               ELSE [n |-> (0 - n) \div g, d |-> (0 - d) \div g]

RatMul(a, b) == Rat(a.n * b.n, a.d * b.d)
RatDiv(a, b) == Rat(a.n * b.d, a.d * b.n)

\* pixelsToPercentage that divides both coordinates by canvasWidth
LevelManager_pixelsToPercentage_byWidth(pixels, canvasWidth, canvasHeight) ==
  Point(RatMul(RatDiv(pixels.x, canvasWidth), Rat(100, 1)),
        RatMul(RatDiv(pixels.y, canvasWidth), Rat(100, 1)))

\* level.ts 351-356
LevelManager_percentageToPixels(percentage, canvasWidth, canvasHeight) ==
  Point(RatMul(RatDiv(percentage.x, Rat(100, 1)), canvasWidth),
        RatMul(RatDiv(percentage.y, Rat(100, 1)), canvasHeight))

\* level.ts 359-364
LevelManager_pixelsToPercentage(pixels, canvasWidth, canvasHeight) ==
  Point(RatMul(RatDiv(pixels.x, canvasWidth), Rat(100, 1)),
        RatMul(RatDiv(pixels.y, canvasHeight), Rat(100, 1)))

\* the points and canvas dimensions tried: on, inside and outside the canvas,
\* whole and fractional
ConvertCoords ==
  {Rat(n, MaxDenominator) : n \in {0 - 50, 0, 1, 75, 200, 300}}
    \cup {Rat(1, 3), Rat(1152, 1), Rat(0 - 2000, 7)}
ConvertPoints == {Point(x, y) : x \in ConvertCoords, y \in {Rat(0, 1), Rat(1, 3), Rat(100, 1)}}
CanvasWidths == {Rat(ART_WIDTH, 1), Rat(TABLET_WIDTH, 1), Rat(1, MaxDenominator)}
CanvasHeights == {Rat(ART_HEIGHT, 1), Rat(TABLET_HEIGHT, 1), Rat(3, MaxDenominator)}

Converted(op, p, w, h, mid, ret) ==
  [op |-> op, p |-> p, w |-> w, h |-> h, mid |-> mid, ret |-> ret]

\* geom holds a point and the canvas dimensions; a round trip fills in the
\* converted point and the point converted back
PercentageRoundTrip ==
  /\ geom.op = "none"
  /\ LET mid == LevelManager_percentageToPixels(geom.p, geom.w, geom.h)
     IN  geom' = [geom EXCEPT !.op = "percentageToPixels, pixelsToPercentage",
                              !.mid = mid,
                              !.ret = LevelManager_pixelsToPercentage(mid, geom.w, geom.h)]
  /\ UNCHANGED <<renderer, calls, showCurve, mgr, game, puzzle, scene>>

PixelsRoundTrip ==
  /\ geom.op = "none"
  /\ LET mid == LevelManager_pixelsToPercentage(geom.p, geom.w, geom.h)
     IN  geom' = [geom EXCEPT !.op = "pixelsToPercentage, percentageToPixels",
                              !.mid = mid,
                              !.ret = LevelManager_percentageToPixels(mid, geom.w, geom.h)]
  /\ UNCHANGED <<renderer, calls, showCurve, mgr, game, puzzle, scene>>

(***************************************************************************)
(* The curve sampler (src/src/level.ts 366-399, 914-920).  An image is its *)
(* width, its height and its pixels; a guess is a point in whole           *)
(* percentages.  A returned number is an exact rational; the renderer's    *)
(* number | null is a record saying which of the two it is.                *)
(***************************************************************************)
NoImage == [width |-> 0, height |-> 0, pixels |-> "none"]

\* the red, green and blue of pixel (x, y) of an image drawn to a canvas of
\* its size; getImageData gives transparent black outside the canvas
PixelAt(image, x, y) ==
  IF x < 0 \/ x >= image.width \/ y < 0 \/ y >= image.height THEN <<0, 0, 0>>
  ELSE CASE image.pixels = "black" -> <<0, 0, 0>>
         [] image.pixels = "white" -> <<255, 255, 255>>
         [] image.pixels = "ramp"  -> <<(x * 85) % 256, (y * 60) % 256, 255 - (((x + y) * 30) % 256)>>

Max(a, b) == IF a >= b THEN a ELSE b
Min(a, b) == IF a <= b THEN a ELSE b

\* lines 382-387 with the upper bound canvas.width in place of canvas.width - 1
ClampedIndex_pastEdge(percent, size) == Max(0, Min(size, (percent * size) \div 100))

\* lines 382-387: Math.max(0, Math.min(size - 1, Math.floor((percent / 100) * size)))
ClampedIndex(percent, size) == Max(0, Min(size - 1, (percent * size) \div 100))

RetValue(v) == [null |-> FALSE, value |-> v]
RetNull == [null |-> TRUE, value |-> Rat(0, 1)]

\* getCurveDistance that answers 0 when the context cannot be acquired
LevelManager_getCurveDistance_zero(guess, curveImage, ctx) ==
  IF ~ctx THEN [x |-> 0 - 1, y |-> 0 - 1, ret |-> RetValue(Rat(0, 1))]
  ELSE LET clampedX == ClampedIndex(guess.x, curveImage.width)
           clampedY == ClampedIndex(guess.y, curveImage.height)
           rgb == PixelAt(curveImage, clampedX, clampedY)
           grayscale == Rat(rgb[1] + rgb[2] + rgb[3], 3)
       IN  [x |-> clampedX, y |-> clampedY,
            ret |-> RetValue(RatMul(RatDiv(grayscale, Rat(255, 1)), Rat(100, 1)))]

\* level.ts 368-399: the pixel sampled (-1, -1 when none is) and the distance
\* returned; ctx says whether canvas.getContext('2d') gave a context
LevelManager_getCurveDistance(guess, curveImage, ctx) ==
  IF ~ctx THEN [x |-> 0 - 1, y |-> 0 - 1, ret |-> RetValue(Rat(50, 1))]
  ELSE LET clampedX == ClampedIndex(guess.x, curveImage.width)
           clampedY == ClampedIndex(guess.y, curveImage.height)
           rgb == PixelAt(curveImage, clampedX, clampedY)
           grayscale == Rat(rgb[1] + rgb[2] + rgb[3], 3)
       IN  [x |-> clampedX, y |-> clampedY,
            ret |-> RetValue(RatMul(RatDiv(grayscale, Rat(255, 1)), Rat(100, 1)))]

\* level.ts 915-920
LevelRenderer_getCurveDistance(curveImage, activePercentageGuess, ctx) ==
  IF curveImage # NoImage
    THEN LevelManager_getCurveDistance(activePercentageGuess, curveImage, ctx)
    ELSE [x |-> 0 - 1, y |-> 0 - 1, ret |-> RetNull]

\* the images and guesses tried
CurveImages ==
  {[width |-> w, height |-> h, pixels |-> px] :
     w \in 1..MaxImageSize, h \in 1..MaxImageSize, px \in {"black", "white", "ramp"}}
CurveGuesses ==
  {Point(x, y) : x \in {0 - 50, 0, 49, 50, 99, 100, 250}, y \in {0 - 1, 50, 100}}

Sampled(op, guess, image, ctx, x, y, ret) ==
  [op |-> op, guess |-> guess, image |-> image, ctx |-> ctx, x |-> x, y |-> y, ret |-> ret]

\* geom holds a guess, the renderer's curve image (or none) and whether a 2D
\* context can be had; a call fills in the pixel sampled and the answer
StaticGetCurveDistance ==
  /\ geom.op = "none"
  /\ geom.image # NoImage
  /\ LET r == LevelManager_getCurveDistance(geom.guess, geom.image, geom.ctx)
     IN  geom' = [geom EXCEPT !.op = "LevelManager.getCurveDistance",
                              !.x = r.x, !.y = r.y, !.ret = r.ret]
  /\ UNCHANGED <<renderer, calls, showCurve, mgr, game, puzzle, scene>>

RendererGetCurveDistance ==
  /\ geom.op = "none"
  /\ LET r == LevelRenderer_getCurveDistance(geom.image, geom.guess, geom.ctx)
     IN  geom' = [geom EXCEPT !.op = "LevelRenderer.getCurveDistance",
                              !.x = r.x, !.y = r.y, !.ret = r.ret]
  /\ UNCHANGED <<renderer, calls, showCurve, mgr, game, puzzle, scene>>

(***************************************************************************)
(* drawLevel (src/src/level.ts 805-960).  The scene is the level drawn,    *)
(* which resources the renderer holds for it after loadLevel, and what the *)
(* update methods write.  Guesses and targets are whole percentages; an    *)
(* alpha is an exact rational, and is computed for whole distances only.   *)
(* The background value is Math.round computed exactly through squares.    *)
(* A filter parameter is a trigonometric function of the guess and the     *)
(* target: it is kept as the arguments it was computed from.  Pixel        *)
(* positions are in hundredths of a pixel.                                 *)
(***************************************************************************)
RatAdd(a, b) == Rat(a.n * b.d + b.n * a.d, a.d * b.d)
RatSub(a, b) == Rat(a.n * b.d - b.n * a.d, a.d * b.d)
RatMax(a, b) == IF a.n * b.d >= b.n * a.d THEN a ELSE b

IsSquare(n) == \E r \in 0..MaxDistance : r * r = n
\* Math.sqrt(n) for a square n
WholeSqrt(n) == CHOOSE r \in 0..MaxDistance : r * r = n

\* normalizedDist squared, in units of 1 / MaxDistSquared:
\* Math.min(Math.sqrt(distX ** 2 + distY ** 2) / maxDist, 1) ** 2
NormalizedDistSquared(playerX, playerY, level) ==
  Min(DistanceSquared(Point(playerX, playerY), level.target), MaxDistSquared)

\* updateWarpFilter 805-828.  The scale written is
\* (warpStrength * waveX, warpStrength * waveY) with waveX, waveY sums of a
\* sine and a cosine pair of the guess; it is kept as <<warpStrength squared,
\* playerX, playerY>>, and warpStrength squared is WarpGain ** 2 *
\* normalizedDist ** 2
LevelRenderer_updateWarpFilter(sc, playerX, playerY, level) ==
  IF sc.displacementFilter /\ sc.displacementSprite
    THEN [sc EXCEPT !.warpScale =
            <<((WarpGain * WarpGain) \div MaxDistSquared)
                * NormalizedDistSquared(playerX, playerY, level),
              playerX, playerY>>]
    ELSE sc

\* updateSpiralFilter 830-872.  The strength written is
\* (1 - normalizedDist) * (spiralConfig.strength ?? 0.1) * 10; it is kept as
\* <<gain, normalizedDist squared>> with gain = strength * 10, for a level that
\* gives spiralEffect no strength
LevelRenderer_updateSpiralFilter(sc, playerX, playerY, level) ==
  IF sc.spiralFilter /\ level.spiralEffect
    THEN [sc EXCEPT !.blurStrength =
            <<DefaultBlurGain, NormalizedDistSquared(playerX, playerY, level)>>]
    ELSE sc

\* updateMultiImageAlpha 878-887: the alpha of sprite i
SpriteAlpha(guess, level, i) ==
  LET t == level.multiImage[i]
      d == Rat(WholeSqrt(DistanceSquared(guess, t)), 1)
      focus == RatMax(Rat(0, 1), RatSub(Rat(1, 1), RatDiv(d, Rat(MultiImageFalloff, 1))))
      minAlpha == Rat(1, 5)
  IN  RatAdd(minAlpha, RatMul(RatSub(Rat(1, 1), minAlpha), focus))

\* updateMultiImageAlpha 874-890; level.multiImage is <<>> when absent
LevelRenderer_updateMultiImageAlpha(sc, guess, level) ==
  IF level.multiImage # <<>> /\ Len(sc.alphas) = Len(level.multiImage)
    THEN [sc EXCEPT !.alphas = [i \in 1..Len(sc.alphas) |-> SpriteAlpha(guess, level, i)]]
    ELSE sc

\* updateJigsawPuzzle 903-912: ScatterPuzzle.updateGuess(pixelGuess)
LevelRenderer_updateJigsawPuzzle(sc, guess) ==
  IF sc.scatterPuzzle THEN [sc EXCEPT !.puzzleGuess = ToArtPixels(guess)] ELSE sc

\* Math.round(255 * (1 - t)) with t = sqrt(n) / sqrt(100 ** 2 + 100 ** 2), for
\* n < 20000: the j with j - 1/2 < 255 * t <= j + 1/2 is taken off 255
RoundedBrightness(n) ==
  255 - (CHOOSE j \in 0..255 :
           /\ 2601 * n <= (2 * j + 1) * (2 * j + 1) * 200
           /\ j > 0 => 2601 * n > (2 * j - 1) * (2 * j - 1) * 200)

\* lines 895-898 without Math.min(..., 1): past the diagonal v goes negative
BackgroundValue_unclamped(guess, target) ==
  LET n == DistanceSquared(guess, target)
  IN  IF n >= MaxDistSquared THEN 0 - 1 - ((n - MaxDistSquared) \div 100)
                             ELSE RoundedBrightness(n)

\* lines 895-898: v
BackgroundValue(guess, target) ==
  LET n == DistanceSquared(guess, target)
  IN  IF n >= MaxDistSquared THEN 0 ELSE RoundedBrightness(n)

\* updateBackgroundColor whose guard forgets the fixed overlay
LevelRenderer_updateBackgroundColor_underOverlay(sc, guess, level) ==
  IF ~sc.backgroundSprite /\ Len(sc.alphas) = 0 /\ ~sc.scatterPuzzle
    THEN LET v == BackgroundValue(guess, level.target)
         IN  [sc EXCEPT !.background = v * 65536 + v * 256 + v]
    ELSE sc

\* updateBackgroundColor 892-901: (v << 16) | (v << 8) | v
LevelRenderer_updateBackgroundColor(sc, guess, level) ==
  IF /\ ~sc.backgroundSprite /\ ~sc.fixedImageSprite
     /\ Len(sc.alphas) = 0 /\ ~sc.scatterPuzzle
    THEN LET v == BackgroundValue(guess, level.target)
         IN  [sc EXCEPT !.background = v * 65536 + v * 256 + v]
    ELSE sc

\* updateCurveCursor that moves the sprite by the guess
LevelRenderer_updateCurveCursor_relative(sc, activePixelGuess) ==
  IF sc.curveCursorSprite
    THEN [sc EXCEPT !.cursor = Point(@.x + activePixelGuess.x, @.y + activePixelGuess.y)]
    ELSE sc

\* updateCurveCursor 923-928
LevelRenderer_updateCurveCursor(sc, activePixelGuess) ==
  IF sc.curveCursorSprite THEN [sc EXCEPT !.cursor = activePixelGuess] ELSE sc

\* drawLevel 936-960
LevelRenderer_drawLevel(sc, guess, level) ==
  LET s1 == LevelRenderer_updateWarpFilter(sc, guess.x, guess.y, level)
      s2 == LevelRenderer_updateSpiralFilter(s1, guess.x, guess.y, level)
      s3 == LevelRenderer_updateMultiImageAlpha(s2, guess, level)
      s4 == LevelRenderer_updateJigsawPuzzle(s3, guess)
      s5 == LevelRenderer_updateBackgroundColor(s4, guess, level)
  IN  IF level.curveCursor THEN LevelRenderer_updateCurveCursor(s5, ToArtPixels(guess))
                           ELSE s5

\* points on one line at whole distances from each other: 10, 30, 40
LinePoints == {Point(32, 26), Point(50, 50), Point(56, 58)}
\* the corners of percentage space and a point outside it
CornerPoints == {Point(0, 0), Point(100, 100), Point(120, 100)}
MultiTargets == {Point(50, 50), Point(32, 26)}

\* the levels drawn
SceneLevels ==
  {l \in [target: {Point(0, 0), Point(50, 50)},
          multiImage: UNION {[1..n -> MultiTargets] : n \in 0..MaxMulti},
          spiralEffect: BOOLEAN, curveCursor: BOOLEAN] :
     l.multiImage # <<>> => (~l.spiralEffect /\ ~l.curveCursor)}

\* the renderer after loadLevel(l) resolved, for each outcome of its loads:
\* the filters exist only if the image's loads got that far, the stack holds
\* the sprites loaded before a failure, the puzzle needs no other image kind
NewScene(l, image, filters, sprites, fixed, jigsaw, cursor) ==
  [level |-> l,
   backgroundSprite |-> image,
   displacementFilter |-> filters, displacementSprite |-> filters,
   spiralFilter |-> filters,
   fixedImageSprite |-> fixed,
   scatterPuzzle |-> jigsaw,
   curveCursorSprite |-> cursor,
   warpScale |-> <<>>, blurStrength |-> <<>>,
   alphas |-> [i \in 1..sprites |-> Rat(1, 1)],
   background |-> 0,
   puzzleGuess |-> Point(0, 0),
   cursor |-> Point(50 * ART_WIDTH, 50 * ART_HEIGHT),
   \* the guesses of the last frame and of the one before, the frames drawn
   guess |-> Point(0, 0), previous |-> Point(0, 0), draws |-> 0]

Scenes ==
  {NewScene(l, image, filters, sprites, fixed, jigsaw, cursor) :
     l \in SceneLevels, image \in BOOLEAN, filters \in BOOLEAN,
     sprites \in 0..MaxMulti, fixed \in BOOLEAN, jigsaw \in BOOLEAN, cursor \in BOOLEAN}

\* the scenes loadLevel can leave
ReachableScene(sc) ==
  /\ sc.backgroundSprite => sc.displacementFilter
  /\ sc.level.spiralEffect => (sc.backgroundSprite \/ sc.displacementFilter)
  /\ Len(sc.alphas) <= Len(sc.level.multiImage)
  /\ sc.scatterPuzzle =>
       (~sc.backgroundSprite /\ ~sc.displacementFilter /\ sc.level.multiImage = <<>>)
  /\ sc.curveCursorSprite => sc.level.curveCursor
  /\ B2N(sc.backgroundSprite \/ sc.displacementFilter) + B2N(sc.level.multiImage # <<>>)
       + B2N(sc.fixedImageSprite) + B2N(sc.scatterPuzzle) + B2N(sc.level.curveCursor)
       <= MaxKinds

\* the guesses drawn for a level: every distance to a stacked image's target
\* is whole
SceneGuesses(l) ==
  {g \in LinePoints \cup CornerPoints :
     \A i \in 1..Len(l.multiImage) : IsSquare(DistanceSquared(g, l.multiImage[i]))}

\* a frame: drawLevel(guess, level)
DrawLevel(guess) ==
  /\ scene.draws < MaxFrames
  /\ guess \in SceneGuesses(scene.level)
  /\ scene' = [LevelRenderer_drawLevel(scene, guess, scene.level)
                 EXCEPT !.guess = guess, !.previous = scene.guess, !.draws = @ + 1]
  /\ UNCHANGED <<renderer, calls, showCurve, mgr, game, geom, puzzle>>

(***************************************************************************)
(* The game module (src/src/game.ts 466-1166).  Of a level the game reads  *)
(* here: whether rendering it loads assets (kind "image", "jigsaw") or     *)
(* none (kind "color"), and its dialog: none, a text over the level, or a  *)
(* dialog-only level (hideCanvas or hideCrosshair).  A point is one of     *)
(* three places: the canvas origin, the centre of the art, the level's     *)
(* target; two points are within a radius of each other exactly when they  *)
(* are the same place.  Sprites, DOM text and the idle jiggle are not part *)
(* of the state: a load whose only effect is a sprite leaves its outcome   *)
(* in no variable.                                                         *)
(***************************************************************************)
Pos == {"origin", "center", "target"}

\* the level configurations tried: dialogs on levels without assets
LevelConfigs ==
  {c \in [kind : {"color", "image", "jigsaw"}, dialog : {"none", "text", "only"}] :
     c.kind # "color" => c.dialog = "none"}

\* the level documents a fetch can deliver, keys parsed and sorted: level i
\* has id i
Catalogs ==
  UNION {{[i \in 1..n |-> [id |-> i, kind |-> c[i].kind, dialog |-> c[i].dialog]] :
            c \in [1..n -> LevelConfigs]} : n \in 0..MaxCatalog}

RemoveAt(q, k) == SubSeq(q, 1, k - 1) \o SubSeq(q, k + 1, Len(q))

\* the module's variables as its top level leaves them (522-547)
NewGame(selector) ==
  [ initPc |-> "appInit",             \* the await initializeGame is suspended at
    rejectedAt |-> "none",            \* where initializeGame threw
    showLevelSelector |-> selector,
    levelManager |-> Undefined,
    currentLevel |-> Undefined,
    loads |-> <<>>,                   \* the unresolved invocations of loadLevel
    dialog |-> [visible |-> FALSE, callback |-> FALSE],
    mouse |-> "origin",
    guess |-> "center",
    isDragging |-> FALSE,
    isMouseButtonPressed |-> FALSE,
    successStartMs |-> "null",
    successMessageVisible |-> FALSE,
    hasPlayerInteractedInLevel |-> FALSE,
    \* history, no variables of the module: the catalogue index that was
    \* current when the success message became visible (-1 without a message),
    \* and whether a mousedown was accepted since the last call of loadLevel
    messageIndex |-> 0 - 1,
    draggedInLevel |-> FALSE ]

\* dialogManager.showDialog(text, image, position, callback): the dialog is
\* shown; the callback, when given, is kept for its dismissal
DialogManager_showDialog(hasCallback) == [visible |-> TRUE, callback |-> hasCallback]

\* levelRenderer.loadLevel(currentLevel) of the invocation that made the
\* level current has resolved
RendererResolved(g) ==
  \A k \in 1..Len(g.loads) : ~(g.loads[k].latest /\ g.loads[k].pc = "renderer")

\* a new invocation of loadLevel, behind the unresolved ones
Invoke(q, init) ==
  Append([k \in 1..Len(q) |-> [q[k] EXCEPT !.latest = FALSE]],
         [pc |-> "renderer", init |-> init, latest |-> TRUE])

\* loadLevel after await dialogManager.showDialog, or without a dialog; the
\* load awaited by initializeGame is followed by app.ticker.add(gameLoop)
Game_finishLoad(g, k) ==
  [g EXCEPT !.loads = RemoveAt(g.loads, k),
            !.initPc = IF g.loads[k].init THEN "running" ELSE @]

\* the reset after the await that forgets successMessageVisible = false
Game_afterRenderer_keepsMessage(g, k) ==
  LET g1 == [g EXCEPT !.guess = "center",
                      !.successStartMs = "null",
                      !.hasPlayerInteractedInLevel = FALSE]
  IN  IF g1.currentLevel.dialog # "none"
      THEN [g1 EXCEPT !.dialog = DialogManager_showDialog(g1.currentLevel.dialog = "only"),
                      !.loads[k].pc = "dialog"]
      ELSE Game_finishLoad(g1, k)

\* loadLevel after await levelRenderer.loadLevel, up to its next await
Game_afterRenderer(g, k) ==
  LET g1 == [g EXCEPT !.guess = "center",
                      !.successStartMs = "null",
                      !.successMessageVisible = FALSE,
                      !.hasPlayerInteractedInLevel = FALSE,
                      !.messageIndex = 0 - 1]
  IN  IF g1.currentLevel.dialog # "none"
      THEN [g1 EXCEPT !.dialog = DialogManager_showDialog(g1.currentLevel.dialog = "only"),
                      !.loads[k].pc = "dialog"]
      ELSE Game_finishLoad(g1, k)

\* loadLevel(levelIndex) up to its first await.  currentLevel undefined throws
\* at currentLevel.displayName.  A level without assets has a renderer load
\* without awaits: its continuation runs before any other task.
Game_loadLevel(g, levelIndex, init) ==
  LET r == LevelManager_loadLevel(g.levelManager, levelIndex)
      g1 == [g EXCEPT !.levelManager = r.m, !.currentLevel = r.ret,
                      !.draggedInLevel = FALSE]
      g2 == [g1 EXCEPT !.loads = Invoke(@, init)]
  IN  IF r.ret = Undefined THEN g1
      ELSE IF r.ret.kind = "color" THEN Game_afterRenderer(g2, Len(g2.loads))
      ELSE g2

\* the next level's index if there is a next level, as the success click and
\* the auto-advance callback compute it
HasNext(g) ==
  g.levelManager.currentLevelIndex + 1 < LevelManager_getLevelCount(g.levelManager)

AdvanceLevel(g) ==
  IF HasNext(g) THEN Game_loadLevel(g, g.levelManager.currentLevelIndex + 1, FALSE) ELSE g

Others == UNCHANGED <<renderer, calls, showCurve, mgr, geom, puzzle, scene>>

\* await app.init(...)
AppInit(ok) ==
  /\ game.initPc = "appInit"
  /\ game' = IF ok THEN [game EXCEPT !.initPc = "tabletBackground"]
             ELSE [game EXCEPT !.initPc = "rejected", !.rejectedAt = "app.init"]
  /\ Others

\* await Assets.load(tablet-canvas.png) in its try/catch; then the renderer
\* and the dialog manager are made and initializeCrosshair starts
TabletBackgroundLoad(ok) ==
  /\ game.initPc = "tabletBackground"
  /\ game' = [game EXCEPT !.initPc = "crosshair"]
  /\ Others

\* initializeCrosshair: the sprite, or the fallback graphics when the load fails
CrosshairLoad(ok) ==
  /\ game.initPc = "crosshair"
  /\ game' = [game EXCEPT !.initPc = "loadLevels"]
  /\ Others

\* levels = await loadLevels() and initializeGame up to await loadLevel(0).
\* loadLevels returns [] for a non-OK response and for a thrown error.
\* With no level, currentLevel is undefined and currentLevel.displayName throws.
LevelsLoaded(outcome, catalog) ==
  /\ game.initPc = "loadLevels"
  /\ LET levels == IF outcome = "ok" THEN catalog ELSE <<>>
         m == LevelManager_new(levels)
         cur == LevelManager_getCurrentLevel(m)
         g1 == [game EXCEPT !.levelManager = m, !.currentLevel = cur]
     IN  game' = IF cur = Undefined
                 THEN [g1 EXCEPT !.initPc = "rejected", !.rejectedAt = "currentLevel.displayName"]
                 ELSE Game_loadLevel([g1 EXCEPT !.initPc = "loadLevel"], 0, TRUE)
  /\ Others

\* click on level box index of the level selector
SelectorClick(index) ==
  /\ game.showLevelSelector
  /\ game.levelManager # Undefined
  /\ index < LevelManager_getLevelCount(game.levelManager)
  /\ game.initPc # "rejected"
  /\ Len(game.loads) < MaxInFlight
  /\ game' = Game_loadLevel(game, index, FALSE)
  /\ Others

\* the awaited levelRenderer.loadLevel of invocation k resolves
RendererLoadResolves(k) ==
  /\ k \in 1..Len(game.loads)
  /\ game.loads[k].pc = "renderer"
  /\ game' = Game_afterRenderer(game, k)
  /\ Others

\* the awaited dialogManager.showDialog of invocation k resolves
ShowDialogResolves(k) ==
  /\ k \in 1..Len(game.loads)
  /\ game.loads[k].pc = "dialog"
  /\ game' = Game_finishLoad(game, k)
  /\ Others

\* the player dismisses the dialog; a dialog-only level's callback advances
DialogDismissed ==
  /\ game.dialog.visible
  /\ game.dialog.callback => Len(game.loads) < MaxInFlight
  /\ LET g1 == [game EXCEPT !.dialog = [visible |-> FALSE, callback |-> FALSE]]
     IN  game' = IF game.dialog.callback THEN AdvanceLevel(g1) ELSE g1
  /\ Others

\* one frame, once gameLoop is on the ticker.  late: more than 2500 ms have
\* passed since successStartMs, which a start in this same frame excludes.
GameLoop(late) ==
  /\ game.initPc = "running"
  /\ game.currentLevel # Undefined /\ game.levelManager # Undefined
  /\ LET wasFound == /\ ~game.isMouseButtonPressed
                     /\ game.successStartMs = "null"
                     /\ game.hasPlayerInteractedInLevel
                     /\ game.guess = "target"
     IN  game' = [game EXCEPT
           !.successStartMs = IF wasFound THEN "set" ELSE @,
           !.successMessageVisible = IF game.successStartMs = "set" /\ late THEN TRUE ELSE @,
           !.messageIndex = IF game.successStartMs = "set" /\ late /\ ~game.successMessageVisible
                            THEN game.levelManager.currentLevelIndex ELSE @]
  /\ Others

MouseMove(p) ==
  /\ p \in Pos
  /\ game' = IF ~game.successMessageVisible /\ game.isDragging
             THEN [game EXCEPT !.mouse = p, !.guess = p]
             ELSE [game EXCEPT !.mouse = p]
  /\ Others

\* a pickup test that takes every point of a jigsaw level as being on the tile
CanPickup_anywhere(g, onPiece) ==
  IF g.currentLevel.kind = "jigsaw" THEN TRUE ELSE g.mouse = g.guess

\* the pickup test of mousedown and mouseenter; onPiece is the renderer's
\* answer for a jigsaw level
CanPickup(g, onPiece) ==
  IF g.currentLevel.kind = "jigsaw" THEN onPiece ELSE g.mouse = g.guess

\* canvas mousedown; with currentLevel undefined the handler throws
MouseDown(onPiece) ==
  /\ (~game.dialog.visible /\ game.successMessageVisible) => Len(game.loads) < MaxInFlight
  /\ game' =
       IF game.dialog.visible THEN game
       ELSE IF game.successMessageVisible THEN AdvanceLevel(game)
       ELSE IF game.currentLevel = Undefined THEN game
       ELSE IF ~CanPickup(game, onPiece) THEN game
       ELSE [game EXCEPT !.isDragging = TRUE,
                         !.isMouseButtonPressed = TRUE,
                         !.successStartMs = "null",
                         !.successMessageVisible = FALSE,
                         !.hasPlayerInteractedInLevel = TRUE,
                         !.guess = game.mouse,
                         !.messageIndex = 0 - 1,
                         !.draggedInLevel = TRUE]
  /\ Others

canvasMouseUp(g) ==
  IF g.dialog.visible \/ g.successMessageVisible THEN g
  ELSE [g EXCEPT !.isDragging = FALSE, !.isMouseButtonPressed = FALSE]

documentMouseUp(g) == [g EXCEPT !.isMouseButtonPressed = FALSE, !.isDragging = FALSE]

\* a release over the canvas runs the canvas listener, then the document's;
\* a release elsewhere only the document's
MouseUp(onCanvas) ==
  /\ game' = IF onCanvas THEN documentMouseUp(canvasMouseUp(game)) ELSE documentMouseUp(game)
  /\ Others

MouseLeave ==
  /\ game' = [game EXCEPT !.isDragging = FALSE]
  /\ Others

MouseEnter(onPiece) ==
  /\ game' =
       IF game.dialog.visible \/ game.successMessageVisible THEN game
       ELSE IF ~game.isMouseButtonPressed THEN game
       ELSE IF game.currentLevel = Undefined THEN game
       ELSE IF CanPickup(game, onPiece)
       THEN [game EXCEPT !.isDragging = TRUE, !.guess = game.mouse]
       ELSE game
  /\ Others

InitRenderer ==
  /\ renderer \in {NewRenderer(f) : f \in {"undefined", "set"}}
  /\ calls = [c \in CallIds |-> IdleCall]
  /\ showCurve \in BOOLEAN

\* the renderer when a specification does not exercise it
InitRendererIdle ==
  /\ renderer = NewRenderer("undefined")
  /\ calls = [c \in CallIds |-> IdleCall]
  /\ showCurve = FALSE

InitMgrIdle == mgr = NoMgr

InitGeomIdle == geom = NoTest

InitPuzzleIdle == puzzle = [last |-> "none"]

InitGameIdle == game = NewGame(FALSE)

InitSceneIdle ==
  scene = NewScene([target |-> Point(0, 0), multiImage |-> <<>>, spiralEffect |-> FALSE,
                    curveCursor |-> FALSE], FALSE, FALSE, 0, FALSE, FALSE, FALSE)

\* Any caller: loadLevel may be called while earlier invocations are suspended.
Init == InitRenderer /\ InitMgrIdle /\ InitGameIdle /\ InitGeomIdle /\ InitPuzzleIdle /\ InitSceneIdle

Next ==
  \/ \E c \in CallIds, l \in Levels : LevelRenderer_loadLevel(c, l)
  \/ \E c \in CallIds, ok \in BOOLEAN : Resume(c, ok)

Spec == Init /\ [][Next]_vars

\* A serializing caller: loadLevel is called only when no invocation is suspended.
LoadLevelSerialized(c, l) == InFlight = {} /\ LevelRenderer_loadLevel(c, l)

NextSeq ==
  \/ \E c \in CallIds, l \in Levels : LoadLevelSerialized(c, l)
  \/ \E c \in CallIds, ok \in BOOLEAN : Resume(c, ok)

SpecSeq == Init /\ [][NextSeq]_vars

(***************************************************************************)
(* The LevelManager on its own: constructed from any array of levels,      *)
(* then called in any order with any arguments.                            *)
(***************************************************************************)
InitMgr ==
  /\ mgr \in {Constructed(a) : a \in LevelInputs}
  /\ InitRendererIdle
  /\ InitGameIdle
  /\ InitSceneIdle
  /\ InitGeomIdle
  /\ InitPuzzleIdle

NextMgr ==
  \/ \E i \in IndexArgs : Mgr_loadLevel(i)
  \/ Mgr_getCurrentLevel
  \/ Mgr_getAllLevels
  \/ Mgr_getLevelCount
  \/ Mgr_getCurrentLevelIndex

SpecMgr == InitMgr /\ [][NextMgr]_vars

(***************************************************************************)
(* The game: initializeGame, then input events, frames and the resolution  *)
(* of pending loads in any order.                                          *)
(***************************************************************************)
InitGame ==
  /\ game \in {NewGame(selector) : selector \in BOOLEAN}
  /\ InitRendererIdle
  /\ InitMgrIdle
  /\ InitSceneIdle
  /\ InitGeomIdle
  /\ InitPuzzleIdle

NextGame ==
  \/ \E ok \in BOOLEAN : AppInit(ok)
  \/ \E ok \in BOOLEAN : TabletBackgroundLoad(ok)
  \/ \E ok \in BOOLEAN : CrosshairLoad(ok)
  \/ \E catalog \in Catalogs : LevelsLoaded("ok", catalog)
  \/ \E outcome \in {"notOk", "error"} : LevelsLoaded(outcome, <<>>)
  \/ \E index \in 0..(MaxCatalog - 1) : SelectorClick(index)
  \/ \E k \in 1..MaxInFlight : RendererLoadResolves(k)
  \/ \E k \in 1..MaxInFlight : ShowDialogResolves(k)
  \/ DialogDismissed
  \/ \E late \in BOOLEAN : GameLoop(late)
  \/ \E p \in Pos : MouseMove(p)
  \/ \E onPiece \in BOOLEAN : MouseDown(onPiece)
  \/ \E onCanvas \in BOOLEAN : MouseUp(onCanvas)
  \/ MouseLeave
  \/ \E onPiece \in BOOLEAN : MouseEnter(onPiece)

SpecGame == InitGame /\ [][NextGame]_vars

\* the ticker keeps calling gameLoop and time advances: once gameLoop is
\* registered, a frame more than 2500 ms after successStartMs comes
SpecGameFair == SpecGame /\ WF_vars(GameLoop(TRUE))

(***************************************************************************)
(* Distance tests on their own.                                            *)
(***************************************************************************)
InitGeom ==
  /\ geom \in {Tested("none", guess, target, radius, FALSE) :
                 guess \in PixelPoints, target \in PixelPoints, radius \in 0..MaxRadius}
            \cup {Tested("none", guess, target, radius, FALSE) :
                 guess \in PercentPoints, target \in PercentPoints, radius \in 1..MaxRadius}
  /\ InitRendererIdle
  /\ InitMgrIdle
  /\ InitGameIdle
  /\ InitSceneIdle
  /\ InitPuzzleIdle

NextGeom ==
  \/ IsGuessSuccessful
  \/ SuccessCheck
  \/ SuccessCheck_scaledRadius

SpecGeom == InitGeom /\ [][NextGeom]_vars

(***************************************************************************)
(* The coordinate conversions on their own.                                *)
(***************************************************************************)
InitConvert ==
  /\ geom \in {Converted("none", p, w, h, p, p) :
                 p \in ConvertPoints, w \in CanvasWidths, h \in CanvasHeights}
  /\ InitRendererIdle
  /\ InitMgrIdle
  /\ InitGameIdle
  /\ InitSceneIdle
  /\ InitPuzzleIdle

NextConvert ==
  \/ PercentageRoundTrip
  \/ PixelsRoundTrip

SpecConvert == InitConvert /\ [][NextConvert]_vars

(***************************************************************************)
(* The curve sampler on its own.                                           *)
(***************************************************************************)
InitCurve ==
  /\ geom \in {Sampled("none", guess, image, ctx, 0 - 1, 0 - 1, RetNull) :
                 guess \in CurveGuesses, image \in CurveImages \cup {NoImage},
                 ctx \in BOOLEAN}
  /\ InitRendererIdle
  /\ InitMgrIdle
  /\ InitGameIdle
  /\ InitSceneIdle
  /\ InitPuzzleIdle

NextCurve ==
  \/ StaticGetCurveDistance
  \/ RendererGetCurveDistance

SpecCurve == InitCurve /\ [][NextCurve]_vars

(***************************************************************************)
(* drawLevel on its own: frames for any guesses on a loaded level.         *)
(***************************************************************************)
InitDraw ==
  /\ scene \in {sc \in Scenes : ReachableScene(sc)}
  /\ InitRendererIdle
  /\ InitMgrIdle
  /\ InitGameIdle
  /\ InitGeomIdle
  /\ InitPuzzleIdle

NextDraw == \E guess \in LinePoints \cup CornerPoints : DrawLevel(guess)

SpecDraw == InitDraw /\ [][NextDraw]_vars

(***************************************************************************)
(* A ScatterPuzzle on its own: constructed for any of the inputs, then     *)
(* updateGuess and the ticker's update in any order.                       *)
(***************************************************************************)
InitPuzzle ==
  /\ puzzle \in {ScatterPuzzle_create(canvas, image, TargetPixels(percent, art), slope, movement, d) :
                   canvas \in RendererSizes, image \in ImageSizes, percent \in TargetPercents,
                   art \in ArtSizes, slope \in Slopes, movement \in Movements,
                   d \in 0..(MaxDraws - 1)}
  /\ InitRendererIdle
  /\ InitMgrIdle
  /\ InitGameIdle
  /\ InitSceneIdle
  /\ InitGeomIdle

NextPuzzle ==
  \/ Puzzle_update
  \/ \E d \in Displacements :
       Puzzle_updateGuess(Point(puzzle.target.x + d[1], puzzle.target.y + d[2]))

SpecPuzzle == InitPuzzle /\ [][NextPuzzle]_vars

(***************************************************************************)
(* A ScatterPuzzle that is also destroyed, any number of times, between    *)
(* the other calls.                                                        *)
(***************************************************************************)
NextTeardown ==
  \/ NextPuzzle
  \/ Puzzle_destroy

SpecTeardown == InitPuzzle /\ [][NextTeardown]_vars

(***************************************************************************)
(* Properties of LevelRenderer.loadLevel.                                  *)
(***************************************************************************)
\* the per-level fields of the renderer that hold one object
PerLevelFields(h) ==
  {h.backgroundSprite, h.fixedImageSprite, h.scatterPuzzle, h.curveImage,
   h.curveCursorSprite} \cup SeqRange(h.backgroundSprites)

\* no invocation later than c has been made
Latest(c) == \A d \in CallIds : d > c => calls[d].pc = "idle"

\* the guard of updateWarpFilter: it writes displacementFilter.scale
WarpFilterActive(h) == h.displacementFilter # Null /\ h.displacementSprite # Null

JigsawLevel(l) == l.jigsawImage /\ ~l.image /\ ~(l.multiImage > 0)

PuzzleDestroyed(h, a) ==
  /\ a \notin h.ticker
  /\ h.puzzles[a].pieces = 0
  /\ h.puzzles[a].targetPiece = "null"
  /\ Obj("puzzle", a, 0) \notin h.children

\* C1: when loadLevel(B) was invoked while loadLevel(A) was suspended and both
\* have resolved, every per-level field and every child of the container is
\* one acquired for B, and only B's puzzle is on the ticker: nothing acquired
\* for A remains.
C1_LastAcquiredWins ==
  \A a \in CallIds, b \in CallIds :
    (/\ calls[a].pc = "done" /\ calls[b].pc = "done"
     /\ a \in calls[b].during
     /\ Latest(b))
    => /\ \A o \in PerLevelFields(renderer) : o = Null \/ Owner(o) = b
       /\ \A o \in renderer.children : Owner(o) = b
       /\ renderer.ticker \subseteq {b}

\* C2: while loadLevel(L) is suspended at any of its awaits, every resource
\* field holds null or an object acquired by this very invocation, the
\* multi-image list holds only its sprites and the container has no filters:
\* everything held from the previous level was released before the first await.
C2_TeardownBeforeAcquire ==
  \A c \in CallIds :
    calls[c].pc \in Awaits
    => /\ \A o \in PerLevelFields(renderer)
                    \cup {renderer.curveDisplaySprite, renderer.spiralFilter,
                          renderer.displacementFilter, renderer.displacementSprite} :
            o = Null \/ Owner(o) = c
       /\ renderer.containerFilters = "undefined"
       /\ \A a \in CallIds : a # c => PuzzleDestroyed(renderer, a)

\* C5: loads run in sequence; when the latest has resolved, the puzzle built
\* for any earlier level is destroyed (off the ticker, no pieces, no target
\* piece, off the container) and scatterPuzzle is the puzzle built for the
\* latest level, or null; for a jigsaw level it is null exactly when its texture
\* failed to load.
C5_NoStalePuzzle ==
  \A b \in CallIds :
    calls[b].pc = "done"
    => /\ \A a \in CallIds : a # b => PuzzleDestroyed(renderer, a)
       /\ renderer.scatterPuzzle \in {Null, Obj("puzzle", b, 0)}
       /\ JigsawLevel(calls[b].level)
            => (renderer.scatterPuzzle = Null
                  <=> LoadName("jigsawImage", 0) \in calls[b].failed)

\* C5 witness: a second jigsaw level has been loaded after a first one whose
\* puzzle was built.
C5_Witness ==
  \E a \in CallIds, b \in CallIds :
    /\ a < b /\ calls[b].pc = "done"
    /\ renderer.puzzles[a].built
    /\ renderer.scatterPuzzle = Obj("puzzle", b, 0)
    /\ b \in renderer.ticker

\* what loadLevel(l), invocation c, acquires of each resource kind
ImageAcquired(h, c) ==
  h.backgroundSprite = Obj("sprite", c, 0) /\ h.backgroundSprite \in h.children
MultiImageAcquired(h, c, l) ==
  /\ h.backgroundSprites = [i \in 1..l.multiImage |-> Obj("multiSprite", c, i)]
  /\ SeqRange(h.backgroundSprites) \subseteq h.children
FixedImageAcquired(h, c) ==
  h.fixedImageSprite = Obj("fixedSprite", c, 0) /\ h.fixedImageSprite \in h.children
JigsawAcquired(h, c) ==
  /\ h.scatterPuzzle = Obj("puzzle", c, 0)
  /\ c \in h.ticker
  /\ h.puzzles[c].pieces = jigsawGridSize * jigsawGridSize
CurveImageAcquired(h, c, show) ==
  /\ h.curveImage = Obj("image", c, 0)
  /\ show => /\ h.curveDisplaySprite = Obj("curveDisplaySprite", c, 0)
             /\ h.curveDisplaySprite \in h.children
CurveCursorAcquired(h, c) ==
  /\ h.curveCursorSprite = Obj("curveCursorSprite", c, 0)
  /\ h.curveCursorSprite \in h.children

\* no load of the named awaits failed in invocation c
Succeeded(c, pcs) == \A n \in calls[c].failed : n[1] \notin pcs

\* C6: loadLevel never rejects, whatever loads fail; and when it has resolved,
\* each resource kind that is configured, allowed by the precedence and whose
\* own loads all succeeded is acquired, whatever happened to the other kinds.
C6_IndependentAcquisition ==
  \A c \in CallIds :
    /\ calls[c].pc # "rejected"
    /\ calls[c].pc = "done" =>
         LET l == calls[c].level
         IN  /\ (l.image /\ Succeeded(c, {"image", "displacement"}))
                  => ImageAcquired(renderer, c)
             /\ (l.multiImage > 0 /\ Succeeded(c, {"multiImage"}))
                  => MultiImageAcquired(renderer, c, l)
             /\ (l.fixedImage /\ Succeeded(c, {"fixedImage"}))
                  => FixedImageAcquired(renderer, c)
             /\ (JigsawLevel(l) /\ Succeeded(c, {"jigsawImage"}))
                  => JigsawAcquired(renderer, c)
             /\ (l.curveImage /\ Succeeded(c, {"curveImage", "curveDisplay"}))
                  => CurveImageAcquired(renderer, c, showCurve)
             /\ (l.curveCursor /\ Succeeded(c, {"curveCursor"}))
                  => CurveCursorAcquired(renderer, c)

\* C6 witness: a load resolved in which the fixed-overlay load failed and the
\* curve cursor, loaded after it, was acquired.
C6_Witness ==
  \E c \in CallIds :
    /\ calls[c].pc = "done"
    /\ LoadName("fixedImage", 0) \in calls[c].failed
    /\ calls[c].level.curveCursor
    /\ CurveCursorAcquired(renderer, c)

\* C7: when level.image is configured and its load failed, then after
\* loadLevel resolved backgroundSprite, displacementFilter and
\* displacementSprite are null, so that updateWarpFilter writes no filter.
C7_FailedImageLeavesNoWarp ==
  \A c \in CallIds :
    (/\ calls[c].pc = "done"
     /\ calls[c].level.image
     /\ ~Succeeded(c, {"image", "displacement"}))
    => /\ renderer.backgroundSprite = Null
       /\ renderer.displacementFilter = Null
       /\ renderer.displacementSprite = Null
       /\ ~WarpFilterActive(renderer)

\* C8: after loadLevel resolved with every load succeeding, at most one of
\* the single image, the multi-image stack and the puzzle is held.
C8_AtMostOneImageKind ==
  \A c \in CallIds :
    (calls[c].pc = "done" /\ calls[c].failed = {})
    => B2N(renderer.backgroundSprite # Null)
         + B2N(Len(renderer.backgroundSprites) > 0)
         + B2N(renderer.scatterPuzzle # Null) <= 1

\* C30: when a load of an element of level.multiImage failed, then after
\* loadLevel resolved backgroundSprites is empty and no sprite of the level's
\* stack is a child of the background container.
C30_FailedMultiImageLeavesNoSprites ==
  \A c \in CallIds :
    (/\ calls[c].pc = "done"
     /\ calls[c].level.multiImage > 0
     /\ ~Succeeded(c, {"multiImage"}))
    => /\ renderer.backgroundSprites = <<>>
       /\ \A o \in renderer.children : ~(o[1] = "multiSprite" /\ Owner(o) = c)

\* C31: loads run in sequence; after loadLevel(L) resolved, scatterPuzzle is
\* non-null exactly when L.jigsawImage is set, L.image and L.multiImage are
\* unset and the load of the jigsaw texture succeeded; in particular a level
\* whose image or multi-image load failed gets no puzzle in its place.
C31_PuzzleOnlyForJigsawLevel ==
  \A c \in CallIds :
    calls[c].pc = "done"
    => LET l == calls[c].level
       IN  renderer.scatterPuzzle # Null
             <=> /\ l.jigsawImage
                 /\ ~l.image
                 /\ l.multiImage = 0
                 /\ LoadName("jigsawImage", 0) \notin calls[c].failed

\* C31 witness: a level with jigsawImage and a single image or a stack was
\* loaded after a level whose puzzle was built, a load of that image or stack
\* failed, and no puzzle is held.
C31_Witness ==
  \E a \in CallIds, c \in CallIds :
    /\ a < c /\ calls[c].pc = "done"
    /\ renderer.puzzles[a].built
    /\ calls[c].level.jigsawImage
    /\ calls[c].level.image \/ calls[c].level.multiImage > 0
    /\ calls[c].failed # {}
    /\ renderer.scatterPuzzle = Null

(***************************************************************************)
(* Properties of LevelManager.                                             *)
(***************************************************************************)
\* C10: loadLevel(i) with i < 0 or i >= getLevelCount() leaves
\* currentLevelIndex as it was and returns the level at that index (undefined
\* for an empty catalogue).
C10_OutOfRangeIgnored ==
  [][\A i \in IndexArgs :
       (Mgr_loadLevel(i) /\ (i < 0 \/ i >= LevelManager_getLevelCount(mgr.lm)))
       => /\ mgr'.lm.currentLevelIndex = mgr.lm.currentLevelIndex
          /\ mgr'.lm.levels = mgr.lm.levels
          /\ mgr'.last.ret.level = ArrayAt(mgr.lm.levels, mgr.lm.currentLevelIndex)]_vars

\* C10 witness: an out-of-range loadLevel was made on a manager whose index
\* had been moved off 0, and it returned the level at that index.
C10_Witness ==
  /\ mgr.last.op = "loadLevel"
  /\ (mgr.last.arg < 0 \/ mgr.last.arg >= Len(mgr.lm.levels))
  /\ mgr.lm.currentLevelIndex > 0
  /\ mgr.last.ret.level = mgr.lm.levels[mgr.lm.currentLevelIndex + 1]

\* the current index is inside the array
IndexInRange(m) == m.currentLevelIndex >= 0 /\ m.currentLevelIndex < Len(m.levels)

\* C11: for a non-empty catalogue, after any sequence of loadLevel calls with
\* any arguments the current index is a valid index and getCurrentLevel
\* returns the level there; loadLevel(i) with i in range sets the index to i.
C11_IndexStaysValid ==
  Len(mgr.lm.levels) > 0 =>
    /\ IndexInRange(mgr.lm)
    /\ mgr.last.op \in {"loadLevel", "getCurrentLevel"} =>
         /\ mgr.last.ret.level # Undefined
         /\ mgr.last.ret.level = mgr.lm.levels[mgr.lm.currentLevelIndex + 1]
    /\ (mgr.last.op = "loadLevel" /\ mgr.last.arg >= 0 /\ mgr.last.arg < Len(mgr.lm.levels)) =>
         mgr.lm.currentLevelIndex = mgr.last.arg
    /\ mgr.last.op = "getCurrentLevelIndex" => mgr.last.ret.n = mgr.lm.currentLevelIndex

\* C11 witness: loadLevel(i) with i > 0 in range has set the index to i, on a
\* catalogue of MaxLevels levels.
C11_Witness ==
  /\ Len(mgr.lm.levels) = MaxLevels
  /\ mgr.last.op = "loadLevel"
  /\ mgr.last.arg = MaxLevels - 1
  /\ mgr.lm.currentLevelIndex = mgr.last.arg

\* the ids of the array a, in its order
Ids(a) == [k \in 1..Len(a) |-> a[k].id]

\* C12: constructed from any ordering of levels with unique ids, getAllLevels
\* returns the same levels in strictly ascending id order.
C12_SortedById ==
  mgr.last.op = "getAllLevels" =>
    /\ Len(mgr.last.ret.levels) = Len(mgr.given)
    /\ SeqRange(mgr.last.ret.levels) = SeqRange(mgr.given)
    /\ \A j, k \in 1..Len(mgr.last.ret.levels) :
         j < k => mgr.last.ret.levels[j].id < mgr.last.ret.levels[k].id

\* C12 witness: getAllLevels on a manager that was given MaxLevels levels in
\* descending id order.
C12_Witness ==
  /\ mgr.last.op = "getAllLevels"
  /\ Len(mgr.given) = MaxLevels
  /\ \A j, k \in 1..Len(mgr.given) : j < k => mgr.given[j].id > mgr.given[k].id
  /\ Ids(mgr.last.ret.levels) # Ids(mgr.given)

(***************************************************************************)
(* Properties of the distance tests.                                       *)
(***************************************************************************)
\* C13: isGuessSuccessful(guess, target, r) is true exactly when the
\* Euclidean distance of guess and target is strictly less than r; at
\* distance r it is false, so with r = 0 no guess succeeds.
C13_StrictlyInsideRadius ==
  geom.op = "isGuessSuccessful" =>
    LET d2 == (geom.guess.x - geom.target.x) * (geom.guess.x - geom.target.x)
              + (geom.guess.y - geom.target.y) * (geom.guess.y - geom.target.y)
        r2 == geom.radius * geom.radius
    IN  /\ d2 < r2 => geom.ret
        /\ d2 = r2 => ~geom.ret
        /\ d2 > r2 => ~geom.ret
        /\ geom.radius = 0 => ~geom.ret

\* C13 witness: a guess at distance exactly r > 0, with both coordinates
\* differing, was tested and refused.
C13_Witness ==
  /\ geom.op = "isGuessSuccessful"
  /\ geom.radius > 0
  /\ geom.guess.x # geom.target.x /\ geom.guess.y # geom.target.y
  /\ DistanceSquared(geom.guess, geom.target) = geom.radius * geom.radius
  /\ ~geom.ret

\* C14: the game loop declares success exactly when the distance of guess
\* and target in percentage space is less than the level's target radius.
C14_SuccessInPercentSpace ==
  geom.op \in {"gameLoop", "gameLoop (part_004)"} =>
    (geom.ret <=> SqrtLess(DistanceSquared(geom.guess, geom.target), geom.radius))

\* C28: for every point p and all positive w, h, converting p from
\* percentages to pixels and back gives p, and converting p from pixels to
\* percentages and back gives p, in exact arithmetic.
C28_ConversionRoundTrip ==
  geom.op # "none" => geom.ret = geom.p

\* C28 witness: a point with a fractional and a negative coordinate made the
\* round trip through a different point, on a canvas that is not square.
C28_Witness ==
  /\ geom.op = "pixelsToPercentage, percentageToPixels"
  /\ geom.p.x.n < 0 /\ geom.p.x.d > 1 /\ geom.p.y.d > 1
  /\ geom.w # geom.h
  /\ geom.mid.x # geom.p.x /\ geom.mid.y # geom.p.y
  /\ geom.ret = geom.p

(***************************************************************************)
(* Properties of drawLevel.                                                *)
(***************************************************************************)
RatAtMost(a, b) == a.n * b.d <= b.n * a.d

\* the alpha of stacked image i is the one that goes with the distance of
\* the last guess to the image's own target
AlphaByOwnDistance(i) ==
  LET n == DistanceSquared(scene.guess, scene.level.multiImage[i])
      alpha == scene.alphas[i]
  IN  /\ n = 0 => alpha = Rat(1, 1)
      /\ n >= MultiImageFalloff * MultiImageFalloff => alpha = Rat(1, 5)
      /\ RatAtMost(Rat(1, 5), alpha) /\ RatAtMost(alpha, Rat(1, 1))
      /\ \A j \in 1..Len(scene.alphas) :
           n = DistanceSquared(scene.guess, scene.level.multiImage[j])
             => alpha = scene.alphas[j]

\* C22: after a frame each stacked image's alpha depends only on the
\* distance d of the guess to the image's own target: 1 when d = 0, 0.2 when
\* d >= 30, within [0.2, 1] always, and equal for images at equal distances.
C22_AlphaFromOwnTarget ==
  scene.draws > 0 => \A i \in 1..Len(scene.alphas) : AlphaByOwnDistance(i)

\* the colour channels of the background
Red(c) == c \div 65536
Green(c) == (c \div 256) % 256
Blue(c) == c % 256

NothingLoaded(sc) ==
  /\ ~sc.backgroundSprite /\ ~sc.fixedImageSprite
  /\ Len(sc.alphas) = 0 /\ ~sc.scatterPuzzle

\* C23: after a frame on a level with no image, overlay, stack or puzzle
\* loaded the background is grey, red = green = blue = v, with v = 255 for a
\* guess on the target, v = 0 for a guess at the length of the diagonal of
\* percentage space from the target or farther, and 0 <= v <= 255.
C23_GreyByDistance ==
  (scene.draws > 0 /\ NothingLoaded(scene)) =>
    LET v == Red(scene.background)
        n == DistanceSquared(scene.guess, scene.level.target)
    IN  /\ Green(scene.background) = v /\ Blue(scene.background) = v
        /\ 0 <= v /\ v <= 255
        /\ n = 0 => v = 255
        /\ n >= 100 * 100 + 100 * 100 => v = 0

\* C23 witness: with the target at (0, 0), a frame for the guess (0, 0), which
\* makes the background white, was followed by a frame for the guess
\* (100, 100), and the background is black.
C23_Witness ==
  /\ scene.draws = 2 /\ NothingLoaded(scene)
  /\ scene.level.target = Point(0, 0)
  /\ scene.previous = Point(0, 0) /\ scene.guess = Point(100, 100)
  /\ scene.background = 0

\* the grey of brightness v as a colour number
Grey(v) == v * 65536 + v * 256 + v

\* C32: a frame writes the background colour, the grey of the guess's
\* distance to the target, exactly when the renderer holds no background
\* sprite, no fixed overlay, no sprite of a stack and no puzzle; in every
\* other case the background colour stays what it was before the frame.
C32_BackgroundWrittenOnlyWithoutImages ==
  [][\A guess \in LinePoints \cup CornerPoints :
       DrawLevel(guess) =>
         IF NothingLoaded(scene)
           THEN scene'.background = Grey(BackgroundValue(guess, scene.level.target))
           ELSE scene'.background = scene.background]_vars

\* C32 witness: a level configured with a stack of images of which none was
\* loaded has been drawn, and the background took a colour other than the
\* one it started with.
C32_Witness ==
  /\ scene.draws > 0
  /\ scene.level.multiImage # <<>> /\ NothingLoaded(scene)
  /\ scene.background # 0
  /\ scene.background = Grey(BackgroundValue(scene.guess, scene.level.target))

\* the displacement scale is (0, 0): the warp strength both waves are
\* multiplied by is 0
WarpScaleIsZero(scale) == scale[1] = 0

\* the blur strength gain * (1 - normalizedDist) is 0
BlurStrengthIsZero(strength) == strength[1] = 0 \/ strength[2] = MaxDistSquared

\* C33: after a frame whose guess is the level's target, the warp
\* displacement scale, where the frame wrote it, is (0, 0) and the blur
\* strength, where the frame wrote it, is 0.
C33_NoDistortionOnTarget ==
  (scene.draws > 0 /\ scene.guess = scene.level.target) =>
    /\ scene.warpScale # <<>> => WarpScaleIsZero(scene.warpScale)
    /\ scene.blurStrength # <<>> => BlurStrengthIsZero(scene.blurStrength)

\* C26: a frame for the guess and level of the frame before it leaves every
\* field of the scene as it was: filter parameters, alphas, background
\* colour, the puzzle's guess, the cursor sprite's position.
C26_DrawLevelIdempotent ==
  [][\A guess \in LinePoints \cup CornerPoints :
       (DrawLevel(guess) /\ scene.draws > 0 /\ scene.guess = guess)
         => [scene' EXCEPT !.draws = scene.draws, !.previous = scene.previous] = scene]_vars

\* C26 witness: two frames were drawn for the same guess on a level with a
\* warped image and a cursor sprite, and both were written.
C26_Witness ==
  /\ scene.draws = 2 /\ scene.guess = scene.previous
  /\ scene.guess = Point(56, 58)
  /\ scene.curveCursorSprite /\ scene.cursor = ToArtPixels(scene.guess)
  /\ scene.displacementFilter /\ scene.warpScale # <<>>

(***************************************************************************)
(* Properties of the curve sampler.                                        *)
(***************************************************************************)
\* a 2D context was had and a pixel of the image was read
PixelSampled == geom.op # "none" /\ geom.ctx /\ geom.image # NoImage

\* C24: with a 2D context, getCurveDistance returns 0 on a solid-black image
\* and 100 on a solid-white one for every query point, always a value in
\* [0, 100], and the pixel it samples has 0 <= x <= width - 1 and
\* 0 <= y <= height - 1, also for query points outside the image.
C24_CurveSampleClamped ==
  PixelSampled =>
    /\ geom.image.pixels = "black" => geom.ret = RetValue(Rat(0, 1))
    /\ geom.image.pixels = "white" => geom.ret = RetValue(Rat(100, 1))
    /\ ~geom.ret.null
    /\ 0 <= geom.ret.value.n /\ geom.ret.value.n <= 100 * geom.ret.value.d
    /\ 0 <= geom.x /\ geom.x <= geom.image.width - 1
    /\ 0 <= geom.y /\ geom.y <= geom.image.height - 1

\* C24 witness: a solid-white image wider than one pixel was sampled for a
\* query point right of and above it, at its last column and first row.
C24_Witness ==
  /\ PixelSampled /\ geom.op = "LevelManager.getCurveDistance"
  /\ geom.image.pixels = "white" /\ geom.image.width > 1
  /\ geom.guess.x >= 100 /\ geom.guess.y < 0
  /\ geom.x = geom.image.width - 1 /\ geom.y = 0
  /\ geom.ret = RetValue(Rat(100, 1))

\* C25: without a 2D context LevelManager.getCurveDistance returns exactly
\* 50 for every query point; LevelRenderer.getCurveDistance returns null
\* exactly when the renderer holds no curve image.
C25_NeutralDefault ==
  /\ (geom.op = "LevelManager.getCurveDistance" /\ ~geom.ctx)
       => geom.ret = RetValue(Rat(50, 1))
  /\ geom.op = "LevelRenderer.getCurveDistance"
       => /\ geom.ret.null <=> geom.image = NoImage
          /\ (geom.image # NoImage /\ ~geom.ctx) => geom.ret = RetValue(Rat(50, 1))

\* C25 witness: the renderer was asked with a curve image loaded and no 2D
\* context to be had, and answered 50.
C25_Witness ==
  /\ geom.op = "LevelRenderer.getCurveDistance"
  /\ geom.image # NoImage /\ geom.image.pixels = "black" /\ ~geom.ctx
  /\ geom.ret = RetValue(Rat(50, 1))

(***************************************************************************)
(* Properties of ScatterPuzzle.                                            *)
(***************************************************************************)
Built == puzzle.last # "none"
HasTarget == puzzle.targetPiece >= 0
OtherTiles == Tiles \ {puzzle.targetPiece}
AtHome(k) ==
  /\ puzzle.pieces[k].x = puzzle.pieces[k].trueX * Unit
  /\ puzzle.pieces[k].y = puzzle.pieces[k].trueY * Unit

\* C15: for every target point in percentage space, edges included, and
\* every image aspect ratio, construction marks exactly one tile as the
\* target tile: targetPiece is not null and one tile carries the border.
C15_ExactlyOneTargetTile ==
  Built => (HasTarget /\ Cardinality({k \in Tiles : puzzle.pieces[k].border}) = 1)

\* C16: after every update the target tile's sprite is at currentGuess minus
\* targetPieceOffset and its border is at the same position, also for guesses
\* outside the canvas.
C16_TargetTileUnderGuess ==
  (Built /\ puzzle.last = "update" /\ HasTarget) =>
    LET t == puzzle.pieces[puzzle.targetPiece]
    IN  /\ t.x = (puzzle.currentGuess.x - puzzle.targetPieceOffset.x) * Unit
        /\ t.y = (puzzle.currentGuess.y - puzzle.targetPieceOffset.y) * Unit
        /\ t.border /\ t.borderX = t.x /\ t.borderY = t.y

\* C16 witness: an update with the guess left of the canvas and far below it;
\* the target tile is outside the range the wrap keeps the other tiles in.
C16_Witness ==
  /\ Built /\ puzzle.last = "update" /\ HasTarget
  /\ puzzle.currentGuess.x < 0
  /\ puzzle.currentGuess.y > puzzle.canvas[2] + 2 * PieceHeight(puzzle)
  /\ puzzle.pieces[puzzle.targetPiece].y > (puzzle.canvas[2] + PieceHeight(puzzle)) * Unit

\* C17: when the guess equals the target point, after update every tile is
\* at its home position, the target tile too, with and without a slope and
\* for every movement factor.
C17_HomeAtTarget ==
  (Built /\ puzzle.last = "update" /\ puzzle.currentGuess = puzzle.target) =>
    \A k \in Tiles : AtHome(k)

\* C17 witness: update has run for a guess equal to a target away from the
\* origin, on a puzzle with a target tile, a sloped line and a movement factor.
C17_Witness ==
  /\ Built /\ puzzle.last = "update" /\ puzzle.currentGuess = puzzle.target
  /\ puzzle.currentGuess # Point(0, 0)
  /\ HasTarget
  /\ puzzle.jigsawSlope.defined /\ puzzle.jigsawSlope.a # 0
  /\ puzzle.jigsawMovement.defined

\* C18: with a slope s = a/b configured, the dist computed by update is zero
\* exactly for the guesses on the line
\* guess.y - target.y = s * (guess.x - target.x).
C18_ZeroOnSlopeLine ==
  (Built /\ puzzle.last = "update" /\ puzzle.jigsawSlope.defined) =>
    (puzzle.dist.num = 0 <=>
       puzzle.jigsawSlope.b * (puzzle.currentGuess.y - puzzle.target.y)
         = puzzle.jigsawSlope.a * (puzzle.currentGuess.x - puzzle.target.x))

\* C19: for a tile that is not the target tile, pre-wrap positions that
\* differ by extendedWidth in X (extendedHeight in Y) wrap to the same sprite
\* position: the position update gave the tile is also the wrap of its
\* pre-wrap position moved by one period either way.
C19_WrapPeriodic ==
  (Built /\ puzzle.last = "update") =>
    \A k \in OtherTiles :
      LET newX == Scattered(puzzle, puzzle.pieces[k].trueX, puzzle.pieces[k].offsetX)
          newY == Scattered(puzzle, puzzle.pieces[k].trueY, puzzle.pieces[k].offsetY)
          w == ExtendedWidth(puzzle) * Unit
          h == ExtendedHeight(puzzle) * Unit
      IN  /\ puzzle.pieces[k].x = WrapX(puzzle, newX + w)
          /\ puzzle.pieces[k].x = WrapX(puzzle, newX - w)
          /\ puzzle.pieces[k].y = WrapY(puzzle, newY + h)
          /\ puzzle.pieces[k].y = WrapY(puzzle, newY - h)

\* C19 witness: after an update one tile's pre-wrap X lies left of the range
\* and another's right of it, and both were wrapped.
C19_Witness ==
  /\ Built /\ puzzle.last = "update"
  /\ \E j, k \in OtherTiles :
       LET xj == Scattered(puzzle, puzzle.pieces[j].trueX, puzzle.pieces[j].offsetX)
           xk == Scattered(puzzle, puzzle.pieces[k].trueX, puzzle.pieces[k].offsetX)
       IN  /\ xj < 0 - PieceWidth(puzzle) * Unit
           /\ xk > (puzzle.canvas[1] + PieceWidth(puzzle)) * Unit
           /\ puzzle.pieces[j].x # xj /\ puzzle.pieces[k].x # xk

\* C20: updateGuess and update leave every tile's scatter vector and home
\* position as createPieces set them, and updateGuess changes currentGuess
\* only: no tile moves before the next update.
C20_ScatterVectorsFixed ==
  [][/\ \A k \in Tiles :
          /\ puzzle'.pieces[k].offsetX = puzzle.pieces[k].offsetX
          /\ puzzle'.pieces[k].offsetY = puzzle.pieces[k].offsetY
          /\ puzzle'.pieces[k].trueX = puzzle.pieces[k].trueX
          /\ puzzle'.pieces[k].trueY = puzzle.pieces[k].trueY
     /\ puzzle'.last = "updateGuess" =>
          puzzle' = [puzzle EXCEPT !.currentGuess = puzzle'.currentGuess,
                                   !.last = "updateGuess"]]_vars

\* C20 witness: updateGuess has set a new guess after an update that
\* scattered the tiles, and the target tile is still where that update put it.
C20_Witness ==
  /\ Built /\ puzzle.last = "updateGuess" /\ HasTarget
  /\ puzzle.dist.num # 0
  /\ puzzle.pieces[puzzle.targetPiece].x
       # (puzzle.currentGuess.x - puzzle.targetPieceOffset.x) * Unit
  /\ \E k \in OtherTiles : ~AtHome(k)

\* the puzzle's fields are those of q, the model's bookkeeping aside
SameFields(p, q) == [p EXCEPT !.last = q.last, !.destroyCalls = q.destroyCalls] = q

\* C21: every call of destroy leaves update off the ticker, pieces empty and
\* targetPiece null; a call on a puzzle destroyed before changes no field; and
\* once destroy was called no step changes pieces, so no tick moves a tile.
C21_DestroyIdempotent ==
  [][/\ Puzzle_destroy =>
          /\ ~puzzle'.ticker
          /\ puzzle'.pieces = <<>>
          /\ puzzle'.targetPiece = 0 - 1
          /\ puzzle'.container = "destroyed"
          /\ puzzle.destroyCalls > 0 => SameFields(puzzle', puzzle)
     /\ puzzle.destroyCalls > 0 =>
          /\ puzzle'.pieces = puzzle.pieces
          /\ ~Puzzle_update]_vars

\* C21 witness: a puzzle whose tiles an update had scattered was destroyed,
\* given another guess after that, and destroyed again.
C21_Witness ==
  /\ puzzle.last = "destroy" /\ puzzle.destroyCalls = 2
  /\ puzzle.dist.num # 0
  /\ puzzle.currentGuess = puzzle.target
  /\ puzzle.pieces = <<>> /\ ~puzzle.ticker

\* C29: after every update each tile that is not the target tile has
\* -pieceWidth <= sprite.x < canvasWidth + pieceWidth and
\* -pieceHeight <= sprite.y < canvasHeight + pieceHeight, however far it was
\* scattered and whatever the sign of the scatter distance.
C29_WrappedIntoExtendedRange ==
  (Built /\ puzzle.last = "update") =>
    \A k \in OtherTiles :
      /\ 0 - PieceWidth(puzzle) * Unit <= puzzle.pieces[k].x
      /\ puzzle.pieces[k].x < (puzzle.canvas[1] + PieceWidth(puzzle)) * Unit
      /\ 0 - PieceHeight(puzzle) * Unit <= puzzle.pieces[k].y
      /\ puzzle.pieces[k].y < (puzzle.canvas[2] + PieceHeight(puzzle)) * Unit

\* C29 witness: an update with a negative scatter distance has sent one tile
\* more than one period below zero in Y and another more than one period
\* above the range in X.
C29_Witness ==
  /\ Built /\ puzzle.last = "update" /\ puzzle.dist.num < 0
  /\ \E j, k \in OtherTiles :
       /\ Scattered(puzzle, puzzle.pieces[j].trueY, puzzle.pieces[j].offsetY)
            < 0 - ExtendedHeight(puzzle) * Unit
       /\ Scattered(puzzle, puzzle.pieces[k].trueX, puzzle.pieces[k].offsetX)
            > 2 * ExtendedWidth(puzzle) * Unit

(***************************************************************************)
(* Properties of the game's level transitions and frame loop.              *)
(***************************************************************************)
\* C3: the callers of loadLevel (selector click, click on the success
\* message, auto-advance callback) never invoke it while an earlier
\* invocation is unresolved: at most one invocation awaits its renderer load.
C3_TransitionsSerialized ==
  Cardinality({k \in 1..Len(game.loads) : game.loads[k].pc = "renderer"}) <= 1

\* C4: every frame calls drawLevel for a level whose levelRenderer.loadLevel
\* has resolved.
C4_DrawOnlyLoadedLevel ==
  [][(\E late \in BOOLEAN : GameLoop(late)) => RendererResolved(game)]_vars

\* C9: whatever the fetch of the level document and the asset loads deliver,
\* initializeGame does not throw on its way to app.ticker.add(gameLoop).
C9_FrameLoopStarts == game.initPc = "rejected" => game.rejectedAt = "app.init"

\* a step that turns isDragging from false to true
DragStarts == ~game.isDragging /\ game'.isDragging

\* the level on screen is a jigsaw level
InJigsawLevel == game.currentLevel # Undefined /\ game.currentLevel.kind = "jigsaw"

\* C27: in a jigsaw level a drag starts only by a mousedown or a mouseenter
\* for which isPointOnJigsawTargetPiece answered true, never by one for which
\* it answered false nor by any other event, and never while a dialog or the
\* success message is visible.
C27_JigsawDragOnlyOnTargetTile ==
  [][(InJigsawLevel /\ DragStarts) =>
       /\ MouseDown(TRUE) \/ MouseEnter(TRUE)
       /\ ~MouseDown(FALSE)
       /\ ~MouseEnter(FALSE)
       /\ ~game.dialog.visible
       /\ ~game.successMessageVisible]_vars

\* a drag is under way in a catalogue whose only level is a jigsaw level, so
\* it was started in that level; the button is held and the guess has been
\* taken from the pointer
C27_Witness ==
  /\ InJigsawLevel
  /\ game.levelManager # Undefined
  /\ Len(game.levelManager.levels) = 1
  /\ game.isDragging
  /\ game.isMouseButtonPressed
  /\ game.hasPlayerInteractedInLevel
  /\ game.guess = game.mouse

\* C34: without a level selector, while the success message shown for the
\* level at index k is visible, clicks and resolving loads in any order
\* leave the catalogue at index k or k + 1: the message advances the
\* catalogue by one level at most.
C34_OneLevelPerSuccessMessage ==
  (~game.showLevelSelector /\ game.successMessageVisible) =>
    /\ game.levelManager.currentLevelIndex >= game.messageIndex
    /\ game.levelManager.currentLevelIndex <= game.messageIndex + 1

\* C35: a frame sets successStartMs only when a mousedown was accepted since
\* the transition to the current level began.
C35_SuccessOnlyAfterDragInLevel ==
  [][(game.successStartMs = "null" /\ game'.successStartMs = "set")
       => game.draggedInLevel]_vars

\* the player has interacted in the level, the button is released, the guess
\* is within the target radius, and gameLoop is on the ticker
FoundAndReleased ==
  /\ game.initPc = "running"
  /\ game.currentLevel # Undefined
  /\ game.hasPlayerInteractedInLevel
  /\ ~game.isMouseButtonPressed
  /\ game.guess = "target"

\* C36: with frames that keep coming, a state in which the player has
\* interacted in the level, the button is released and the guess is within
\* the target radius is followed by the success message becoming visible,
\* unless an input or a resolving load ends that state first; and whenever
\* successMessageVisible holds, successStartMs is non-null.
C36_SuccessMessageEventually ==
  /\ [](game.successMessageVisible => game.successStartMs # "null")
  /\ (FoundAndReleased ~> (game.successMessageVisible \/ ~FoundAndReleased))

\* C36 witness: the message is visible over a guess that stayed on the target
\* with the button released
C36_Witness ==
  /\ FoundAndReleased
  /\ game.successMessageVisible
  /\ game.successStartMs = "set"

====
